---------------------------- MODULE Spec2Model ----------------------------
(***************************************************************************)
(* Model of the itinerary generation engine of tripwise-backend            *)
(* (src/api/user_itinerary.py) together with the collaborators it calls    *)
(* (src/api/utils/google.py, weather.py, db.py, src/api/ml/predict.py).    *)
(*                                                                         *)
(* Units.  Hours are kept in hundredths of an hour (8.0 h = 800), the      *)
(* resolution the code itself rounds travel times to.  Money is kept in    *)
(* rupees; every price and budget of the model is a multiple of 50, so     *)
(* the products with 0.6, 0.4, 0.3, 0.25, 1.1 and 1.5 the code takes are   *)
(* whole numbers and are computed exactly.  Ratings are in tenths.         *)
(* Latitudes are in thousandths of a degree; every location of the model   *)
(* lies on the meridian lng = 77.0 of the code's start location, where     *)
(* the Haversine formula reduces to R * |dlat|.                            *)
(* Names are sequences of character codes: 0 is a space, 1..26 are the     *)
(* lower-case letters, 101..126 the upper-case ones.                       *)
(***************************************************************************)
EXTENDS Integers, Sequences, FiniteSets, TLC

----------------------------------------------------------------------------
(* Generic helpers *)

Abs(x) == IF x < 0 THEN -x ELSE x

Min2(a, b) == IF a <= b THEN a ELSE b

Max2(a, b) == IF a >= b THEN a ELSE b

Range(s) == {s[i] : i \in 1..Len(s)}

RECURSIVE SumSeq(_)
SumSeq(s) == IF s = <<>> THEN 0 ELSE Head(s) + SumSeq(Tail(s))

RECURSIVE FlattenSeq(_)
FlattenSeq(ss) == IF ss = <<>> THEN <<>> ELSE Head(ss) \o FlattenSeq(Tail(ss))

----------------------------------------------------------------------------
(* str.lower() and str.strip() on names *)

LowerChar(c) == IF c > 100 THEN c - 100 ELSE c

Lower(s) == [i \in 1..Len(s) |-> LowerChar(s[i])]

RECURSIVE StripLeft(_)
StripLeft(s) == IF s # <<>> /\ Head(s) = 0 THEN StripLeft(Tail(s)) ELSE s

RECURSIVE StripRight(_)
StripRight(s) ==
    IF s # <<>> /\ s[Len(s)] = 0 THEN StripRight(SubSeq(s, 1, Len(s) - 1)) ELSE s

Strip(s) == StripRight(StripLeft(s))

----------------------------------------------------------------------------
(* difflib.SequenceMatcher(None, a, b).ratio() = 2*M/T, as the pair (2M, T) *)

RECURSIVE CommonLen(_, _, _, _, _, _)
CommonLen(a, b, i, j, ahi, bhi) ==
    IF i > ahi \/ j > bhi \/ a[i] # b[j] THEN 0
    ELSE 1 + CommonLen(a, b, i + 1, j + 1, ahi, bhi)

(* find_longest_match: longest block, earliest in a, then earliest in b *)
find_longest_match(a, b, alo, ahi, blo, bhi) ==
    LET cands == {<<i, j>> : i \in alo..ahi, j \in blo..bhi}
        len == [p \in cands |-> CommonLen(a, b, p[1], p[2], ahi, bhi)]
        longest == CHOOSE k \in {len[p] : p \in cands} :
                       \A p \in cands : len[p] <= k
        firsts == {p \in cands : len[p] = longest}
        best == CHOOSE p \in firsts :
                  \A q \in firsts : p[1] < q[1] \/ (p[1] = q[1] /\ p[2] <= q[2])
    IN [i |-> best[1], j |-> best[2], k |-> longest]

RECURSIVE MatchingChars(_, _, _, _, _, _)
MatchingChars(a, b, alo, ahi, blo, bhi) ==
    IF alo > ahi \/ blo > bhi THEN 0
    ELSE LET m == find_longest_match(a, b, alo, ahi, blo, bhi)
         IN IF m.k = 0 THEN 0
            ELSE m.k + MatchingChars(a, b, alo, m.i - 1, blo, m.j - 1)
                     + MatchingChars(a, b, m.i + m.k, ahi, m.j + m.k, bhi)

calculate_similarity(str1, str2) ==
    LET a == Lower(str1)
        b == Lower(str2)
    IN IF Len(a) + Len(b) = 0 THEN [num |-> 1, den |-> 1]
       ELSE [num |-> 2 * MatchingChars(a, b, 1, Len(a), 1, Len(b)),
             den |-> Len(a) + Len(b)]

(* ratio > tenths/10 *)
SimilarityAbove(sim, tenths) == sim.num * 10 > tenths * sim.den

----------------------------------------------------------------------------
(* Haversine distance in metres between two locations on one meridian:     *)
(* R * dlat(rad) = 6371 km * pi/180 * dlat(deg) = 111.195 m per 0.001 deg  *)

MetresPerMilliDegree1000 == 111195

calculate_distance(loc1, loc2) ==
    (Abs(loc1.lat - loc2.lat) * MetresPerMilliDegree1000) \div 1000

(* a variant without the minimum of 15 minutes *)
estimate_internal_travel_time_no_minimum(loc1, loc2) ==
    LET d == calculate_distance(loc1, loc2)
        avg_speed == IF d < 10000 THEN 25 ELSE IF d < 50000 THEN 35 ELSE 50
    IN (2 * d + 10 * avg_speed) \div (20 * avg_speed)

(* hundredths of an hour, round(max(0.25, km / speed), 2) *)
estimate_internal_travel_time(loc1, loc2) ==
    LET d == calculate_distance(loc1, loc2)
        avg_speed == IF d < 10000 THEN 25 ELSE IF d < 50000 THEN 35 ELSE 50
        travel == (2 * d + 10 * avg_speed) \div (20 * avg_speed)
    IN Max2(25, travel)

----------------------------------------------------------------------------
(* Spots returned by the place-data collaborators.  A spot without the     *)
(* keys is_hidden / tags reads as FALSE / {} (dict.get defaults).          *)

Spot(name, type, lat, avg_time, cost, rating) ==
    [name |-> name, type |-> type, location |-> [lat |-> lat],
     avg_time |-> avg_time, estimated_cost |-> cost, rating |-> rating,
     is_hidden |-> FALSE, tags |-> {}]

nTea  == <<20, 5, 1>>
nTeas == <<20, 5, 1, 19>>
nFort == <<6, 15, 18, 20>>
nPeak == <<16, 5, 1, 11>>
nInn  == <<9, 14, 14>>
nSpa  == <<19, 16, 1>>
nHut  == <<8, 21, 20>>
nCafe == <<3, 1, 6, 5>>
nCave == <<3, 1, 22, 5>>

(* what the general place query (get_places) can return, in this order *)
GeneralCatalogue ==
    << Spot(nTea,  "nature",     10100, 200, 100,  46),
       Spot(nFort, "heritage",   10900, 300, 200,  42),
       Spot(nPeak, "adventure",  10300, 600, 9000, 48),
       Spot(nInn,  "hotel",      10103, 0,   500,  40),
       Spot(nSpa,  "hotel",      10200, 0,   1500, 45),
       Spot(nHut,  "restaurant", 10106, 100, 150,  41),
       Spot(nCafe, "restaurant", 10700, 100, 400,  44) >>

(* what the hidden-spot query (get_hidden_spots) can return *)
HiddenCatalogue ==
    << Spot(nCave, "adventure", 10120, 150, 100, 0),
       Spot(nTea,  "nature",    10100, 200, 50,  0) >>

----------------------------------------------------------------------------
(* deduplicate_attractions *)

IsDuplicateOf(current_name, current_location, seen) ==
    LET name_similarity == calculate_similarity(current_name, seen.name)
        location_distance == calculate_distance(current_location, seen.location)
    IN \/ SimilarityAbove(name_similarity, 8)
       \/ location_distance < 500
       \/ SimilarityAbove(name_similarity, 6) /\ location_distance < 2000

RECURSIVE DedupLoop(_, _, _)
DedupLoop(attractions, unique_attractions, seen_locations) ==
    IF attractions = <<>> THEN unique_attractions
    ELSE LET attraction == Head(attractions)
             current_name == Strip(Lower(attraction.name))
             is_duplicate ==
                 \E k \in 1..Len(seen_locations) :
                     IsDuplicateOf(current_name, attraction.location, seen_locations[k])
         IN IF current_name = <<>> \/ is_duplicate
            THEN DedupLoop(Tail(attractions), unique_attractions, seen_locations)
            ELSE DedupLoop(Tail(attractions),
                           Append(unique_attractions, attraction),
                           Append(seen_locations,
                                  [name |-> current_name,
                                   location |-> attraction.location]))

(* a variant that keeps the latest record of a duplicate pair *)
RECURSIVE DedupLoopKeepLast(_, _, _)
DedupLoopKeepLast(attractions, unique_attractions, seen_locations) ==
    IF attractions = <<>> THEN unique_attractions
    ELSE LET attraction == Head(attractions)
             current_name == Strip(Lower(attraction.name))
             dups == {k \in 1..Len(seen_locations) :
                        IsDuplicateOf(current_name, attraction.location, seen_locations[k])}
             entry == [name |-> current_name, location |-> attraction.location]
         IN IF current_name = <<>>
            THEN DedupLoopKeepLast(Tail(attractions), unique_attractions, seen_locations)
            ELSE IF dups # {}
            THEN LET k == CHOOSE d \in dups : \A e \in dups : d <= e
                 IN DedupLoopKeepLast(Tail(attractions),
                                      [unique_attractions EXCEPT ![k] = attraction],
                                      [seen_locations EXCEPT ![k] = entry])
            ELSE DedupLoopKeepLast(Tail(attractions),
                                   Append(unique_attractions, attraction),
                                   Append(seen_locations, entry))

deduplicate_attractions_keep_last(attractions) ==
    DedupLoopKeepLast(attractions, <<>>, <<>>)

deduplicate_attractions(attractions) == DedupLoop(attractions, <<>>, <<>>)

----------------------------------------------------------------------------
(* Python's None, and truthiness of the values the engine tests *)

None == [none |-> TRUE]

(* a Python list crossing the cache interface; dicts are records *)
PyList(items) == [items |-> items]

Truthy(v) == v # None /\ v # PyList(<<>>)

----------------------------------------------------------------------------
(* Time-of-day legality *)

OutdoorTypes == {"nature", "sightseeing", "adventure", "attraction"}

is_activity_time_realistic(hour_float, activity_type) ==
    IF activity_type \in OutdoorTypes
    THEN 700 <= hour_float /\ hour_float <= 1800
    ELSE IF activity_type = "restaurant"
    THEN \/ 700 <= hour_float /\ hour_float <= 1000
         \/ 1200 <= hour_float /\ hour_float <= 1500
         \/ 1800 <= hour_float /\ hour_float <= 2100
    ELSE IF activity_type = "hotel"
    THEN hour_float >= 1400 \/ hour_float <= 1200
    ELSE IF activity_type = "travel"
    THEN 600 <= hour_float /\ hour_float <= 2200
    ELSE TRUE

enforce_daily_time_limits(current_hour, daily_start_hour) ==
    /\ ~(current_hour > 1800)
    /\ ~((current_hour - daily_start_hour) > 1000)

(* returns (activity_time, end_hour), or (None, current_hour) when blocked *)
schedule_activity_safely(current_hour, activity, activity_type, daily_start_hour) ==
    LET activity_time == Min2(activity.avg_time, 300)
        end_hour == current_hour + activity_time
    IN IF /\ is_activity_time_realistic(current_hour, activity_type)
          /\ is_activity_time_realistic(end_hour, activity_type)
          /\ enforce_daily_time_limits(current_hour, daily_start_hour)
       THEN [ok |-> TRUE, activity_time |-> activity_time, new_hour |-> end_hour]
       ELSE [ok |-> FALSE, activity_time |-> 0, new_hour |-> current_hour]

(* "%I:%M %p" of the hour, as minutes after midnight *)
format_time_from_float(hour_float) ==
    LET h == hour_float % 2400
        hours == h \div 100
        minutes == ((h % 100) * 60) \div 100
    IN hours * 60 + minutes

----------------------------------------------------------------------------
(* Budget allocation, hotel selection, priority score *)

(* a variant whose multi-day accommodation envelope is the 60 % ceiling *)
allocate_budget_with_ceiling(budget, duration) ==
    IF duration <= 1
    THEN [accommodation |-> 0,
          activities |-> (budget * 6) \div 10,
          meals |-> (budget * 4) \div 10,
          max_hotel_budget |-> 0]
    ELSE [accommodation |-> (budget * 6) \div 10,
          activities |-> (budget * 3) \div 10,
          meals |-> (budget * 2) \div 10,
          max_hotel_budget |-> (budget * 6) \div 10]

allocate_budget_realistically(budget, duration) ==
    IF duration <= 1
    THEN [accommodation |-> 0,
          activities |-> (budget * 6) \div 10,
          meals |-> (budget * 4) \div 10,
          max_hotel_budget |-> 0]
    ELSE [accommodation |-> (budget * 5) \div 10,
          activities |-> (budget * 3) \div 10,
          meals |-> (budget * 2) \div 10,
          max_hotel_budget |-> (budget * 6) \div 10]

(* value_score = rating / max(cost_per_night/1000, 1); a has a higher one than b *)
ValueScoreGreater(a, b) ==
    a.rating * Max2(b.estimated_cost, 1000) > b.rating * Max2(a.estimated_cost, 1000)

(* a variant that picks by rating alone *)
BestRated(hs) ==
    LET k == CHOOSE i \in 1..Len(hs) :
               /\ \A j \in 1..Len(hs) : hs[j].rating <= hs[i].rating
               /\ \A j \in 1..(i - 1) : hs[j].rating < hs[i].rating
    IN hs[k]

(* max(list, key=value_score): the first element with the highest score *)
BestValue(hs) ==
    LET k == CHOOSE i \in 1..Len(hs) :
               /\ \A j \in 1..Len(hs) : ~ValueScoreGreater(hs[j], hs[i])
               /\ \A j \in 1..(i - 1) : ValueScoreGreater(hs[i], hs[j])
    IN hs[k]

(* min(list, key=estimated_cost): the first element with the lowest price *)
Cheapest(hs) ==
    LET k == CHOOSE i \in 1..Len(hs) :
               /\ \A j \in 1..Len(hs) : hs[i].estimated_cost <= hs[j].estimated_cost
               /\ \A j \in 1..(i - 1) : hs[j].estimated_cost > hs[i].estimated_cost
    IN hs[k]

select_budget_appropriate_hotel(hotels, budget_allocation, duration) ==
    IF hotels = <<>> \/ duration <= 1 THEN [hotel |-> None, total_cost |-> 0]
    ELSE LET num_nights == Max2(1, duration - 1)
             max_hotel_budget == budget_allocation.max_hotel_budget
             total(h) == h.estimated_cost * num_nights
             affordable == SelectSeq(hotels, LAMBDA h : total(h) <= max_hotel_budget)
             (* extended_budget = max_hotel_budget * 1.5 *)
             extended == SelectSeq(hotels,
                                   LAMBDA h : 2 * total(h) <= 3 * max_hotel_budget)
             affordable_hotels == IF affordable # <<>> THEN affordable ELSE extended
         IN IF affordable_hotels = <<>>
            THEN [hotel |-> Cheapest(hotels), total_cost |-> total(Cheapest(hotels))]
            ELSE [hotel |-> BestValue(affordable_hotels),
                  total_cost |-> total(BestValue(affordable_hotels))]

HiddenTags == {"hidden", "secret", "offbeat", "local", "gem"}

(* a variant whose top rating tier starts at 4.5 itself *)
get_priority_score_inclusive(spot, interests) ==
    LET base == IF spot.type \in Range(interests) THEN 4 ELSE 2
        hidden_bonus == IF spot.is_hidden THEN 6 ELSE 0
        tagged == IF spot.tags \cap HiddenTags # {} THEN 4 ELSE 0
        rated == IF spot.rating >= 45 THEN 2 ELSE IF spot.rating > 40 THEN 1 ELSE 0
        costly == IF spot.estimated_cost > 8000 THEN 1 ELSE 0
    IN Max2(0, base + hidden_bonus + tagged + rated - costly)

(* the score in halves of a point *)
get_priority_score(spot, interests) ==
    LET base == IF spot.type \in Range(interests) THEN 4 ELSE 2
        hidden_bonus == IF spot.is_hidden THEN 6 ELSE 0
        tagged == IF spot.tags \cap HiddenTags # {} THEN 4 ELSE 0
        rated == IF spot.rating > 45 THEN 2 ELSE IF spot.rating > 40 THEN 1 ELSE 0
        costly == IF spot.estimated_cost > 8000 THEN 1 ELSE 0
    IN Max2(0, base + hidden_bonus + tagged + rated - costly)

(* a variant whose score key breaks ties by the estimated cost *)
SortKeyCostTieBreak(which, x) ==
    IF which = "estimated_cost" THEN x.estimated_cost
    ELSE (0 - x.priority_score) * 100000 + x.estimated_cost

(* sorted(list, key=...) is stable; the two keys the engine sorts by *)
SortKey(which, x) ==
    IF which = "estimated_cost" THEN x.estimated_cost ELSE 0 - x.priority_score

RECURSIVE InsertByKey(_, _, _)
InsertByKey(sorted, x, which) ==
    IF sorted = <<>> THEN <<x>>
    ELSE IF SortKey(which, Head(sorted)) <= SortKey(which, x)
         THEN <<Head(sorted)>> \o InsertByKey(Tail(sorted), x, which)
         ELSE <<x>> \o sorted

RECURSIVE SortedBy(_, _)
SortedBy(list, which) ==
    IF list = <<>> THEN <<>>
    ELSE InsertByKey(SortedBy(SubSeq(list, 1, Len(list) - 1), which),
                     list[Len(list)], which)

----------------------------------------------------------------------------
(* Bounds of the model *)

MaxDuration == 3

MaxPlaces == 2

----------------------------------------------------------------------------
(* Requests.  Dates are days relative to today; budget_numeric = FALSE is  *)
(* a budget string float() rejects; fields_present = FALSE is an empty or  *)
(* absent starting_location, destination, start_date or end_date.          *)

Budgets == {1000, 1600}

BaseRequest ==
    [fields_present |-> TRUE, budget_numeric |-> TRUE, budget |-> 1600,
     dates_parse |-> TRUE, start_date |-> 0, end_date |-> 1,
     interests |-> <<>>]

ValidRequests ==
    [fields_present : {TRUE}, budget_numeric : {TRUE}, budget : Budgets,
     dates_parse : {TRUE}, start_date : {0}, end_date : 0..(MaxDuration - 1),
     interests : {<<"nature">>}]
        \cup {BaseRequest}

InvalidRequests ==
    { [BaseRequest EXCEPT !.fields_present = FALSE],
      [BaseRequest EXCEPT !.budget = 0],
      [BaseRequest EXCEPT !.budget_numeric = FALSE],
      [BaseRequest EXCEPT !.budget = 0 - 100],
      [BaseRequest EXCEPT !.budget = 950],
      [BaseRequest EXCEPT !.dates_parse = FALSE],
      [BaseRequest EXCEPT !.start_date = 2, !.end_date = 1],
      [BaseRequest EXCEPT !.start_date = 0 - 1, !.end_date = 1],
      [BaseRequest EXCEPT !.start_date = 0, !.end_date = 31],
      [BaseRequest EXCEPT !.budget = 950, !.end_date = 31] }

Requests == ValidRequests \cup InvalidRequests

(* a variant without the minimum-budget test *)
validate_request_data_no_minimum(data) ==
    IF ~data.fields_present \/ (data.budget_numeric /\ data.budget = 0)
    THEN [ok |-> FALSE, error |-> "Missing required fields"]
    ELSE IF ~data.budget_numeric
    THEN [ok |-> FALSE, error |-> "Invalid budget format"]
    ELSE IF data.budget <= 0
    THEN [ok |-> FALSE, error |-> "Budget must be a positive number"]
    ELSE IF ~data.dates_parse
    THEN [ok |-> FALSE, error |-> "Invalid date format"]
    ELSE IF data.start_date > data.end_date
    THEN [ok |-> FALSE, error |-> "Start date must be before end date"]
    ELSE IF data.start_date < 0
    THEN [ok |-> FALSE, error |-> "Start date cannot be in the past"]
    ELSE IF data.end_date - data.start_date > 30
    THEN [ok |-> FALSE, error |-> "Trip duration cannot exceed 30 days"]
    ELSE [ok |-> TRUE, error |-> ""]

validate_request_data(data) ==
    IF ~data.fields_present \/ (data.budget_numeric /\ data.budget = 0)
    THEN [ok |-> FALSE, error |-> "Missing required fields"]
    ELSE IF ~data.budget_numeric
    THEN [ok |-> FALSE, error |-> "Invalid budget format"]
    ELSE IF data.budget <= 0
    THEN [ok |-> FALSE, error |-> "Budget must be a positive number"]
    ELSE IF data.budget < 1000
    THEN [ok |-> FALSE, error |-> "Budget too low"]
    ELSE IF ~data.dates_parse
    THEN [ok |-> FALSE, error |-> "Invalid date format"]
    ELSE IF data.start_date > data.end_date
    THEN [ok |-> FALSE, error |-> "Start date must be before end date"]
    ELSE IF data.start_date < 0
    THEN [ok |-> FALSE, error |-> "Start date cannot be in the past"]
    ELSE IF data.end_date - data.start_date > 30
    THEN [ok |-> FALSE, error |-> "Trip duration cannot exceed 30 days"]
    ELSE [ok |-> TRUE, error |-> ""]

----------------------------------------------------------------------------
(* The collaborators.  `up` says whether the remote service answered.      *)

LiveRoutes ==
    { [distance_km |-> 230, duration_hours |-> 750],
      [distance_km |-> 250, duration_hours |-> 800],
      [distance_km |-> 600, duration_hours |-> 1300] }

(* a variant that returns nothing when the routing service fails *)
get_route_info_no_fallback(up, live) == IF up THEN live ELSE None

get_route_info(up, live) ==
    IF up THEN live ELSE [distance_km |-> 150, duration_hours |-> 500]

nPark   == <<16, 1, 18, 11>>
nMuseum == <<13, 21, 19, 5, 21, 13>>
nLodge  == <<12, 15, 4, 7, 5>>
nLeaf   == <<12, 5, 1, 6>>
nBirds  == <<2, 9, 18, 4, 19>>

(* sample_places of get_mock_places, names shortened: the destination's   *)
(* own places, and one nature place of another destination                *)
SamplePlaces ==
    << [spot |-> Spot(nPark,   "nature",     10200, 300, 420,  45), destination |-> "Munnar"],
       [spot |-> Spot(nMuseum, "heritage",   10100, 200, 150,  42), destination |-> "Munnar"],
       [spot |-> Spot(nLodge,  "hotel",      10050, 0,   2500, 40), destination |-> "Munnar"],
       [spot |-> Spot(nLeaf,   "restaurant", 10060, 100, 400,  41), destination |-> "Munnar"],
       [spot |-> Spot(nBirds,  "nature",     9610,  250, 100,  40), destination |-> "Kumarakom"] >>

Destination == "Munnar"

get_mock_places(destination, interests) ==
    LET filtered == SelectSeq(SamplePlaces,
                        LAMBDA p : \/ p.spot.type \in Range(interests)
                                   \/ p.spot.type \in {"hotel", "restaurant"}
                                   \/ p.destination = destination)
    IN [i \in 1..Len(filtered) |-> filtered[i].spot]

get_places(up, live, destination, interests) ==
    IF up THEN PyList(SubSeq(live, 1, Min2(Len(live), 20)))
    ELSE PyList(get_mock_places(destination, interests))

get_hidden_spots(up, live) ==
    IF up THEN PyList(SubSeq(live, 1, Min2(Len(live), 10))) ELSE PyList(<<>>)

get_weather(up, location, date) ==
    [live |-> up, lat |-> location.lat, date |-> date]

(* the sub-lists of a catalogue a query can return, in catalogue order *)
RECURSIVE SeqOfIndices(_, _)
SeqOfIndices(cat, idx) ==
    IF idx = {} THEN <<>>
    ELSE LET m == CHOOSE i \in idx : \A j \in idx : i <= j
         IN <<cat[m]>> \o SeqOfIndices(cat, idx \ {m})

SubLists(cat, n) ==
    {SeqOfIndices(cat, idx) : idx \in {x \in SUBSET (1..Len(cat)) : Cardinality(x) <= n}}

LivePlaces == SubLists(GeneralCatalogue, MaxPlaces)

LiveHidden == SubLists(HiddenCatalogue, Len(HiddenCatalogue))

----------------------------------------------------------------------------
(* The cache.  A key is its leading word and the words the f-string adds   *)
(* (the sorted interests, the coordinates and date for weather).           *)

CacheKey(kind, tokens, lat, date) ==
    [kind |-> kind, tokens |-> tokens, lat |-> lat, date |-> date]

RouteKey == CacheKey("route", {}, 0, 0)

PlacesKey(interests) == CacheKey("places", Range(interests), 0, 0)

HiddenKey(interests) == CacheKey("hidden", Range(interests), 0, 0)

WeatherKey(location, date) == CacheKey("weather", {}, location.lat, date)

KeyContains(cache_key, word) == word = cache_key.kind \/ word \in cache_key.tokens

CacheDuration(cache_key) ==
    IF KeyContains(cache_key, "weather") THEN 1800
    ELSE IF KeyContains(cache_key, "places") \/ KeyContains(cache_key, "hidden") THEN 3600
    ELSE IF KeyContains(cache_key, "route") THEN 7200
    ELSE 300

(* get_cached_or_fetch; `raised` is fetch_function raising, `fresh` its    *)
(* return value otherwise.  fetched tells whether fetch_function ran.      *)
get_cached_or_fetch(cache_now, cache_key, raised, fresh) ==
    IF cache_key \in DOMAIN cache_now /\ Truthy(cache_now[cache_key].value)
    THEN [value |-> cache_now[cache_key].value, cache |-> cache_now, fetched |-> FALSE]
    ELSE IF raised
    THEN [value |-> None, cache |-> cache_now, fetched |-> TRUE]
    ELSE [value |-> fresh,
          cache |-> (cache_key :> [value |-> fresh, ttl |-> CacheDuration(cache_key)])
                    @@ cache_now,
          fetched |-> TRUE]

----------------------------------------------------------------------------
(* The day-wise scheduler of generate_itinerary.  A scheduler state S      *)
(* holds the locals the day loop reads and writes; ctx holds the locals    *)
(* the loop only reads.                                                    *)

Entry(kind, time, name, duration_hours, type, cost, is_hidden_gem, weather) ==
    [kind |-> kind, time |-> time, name |-> name,
     duration_hours |-> duration_hours, type |-> type, cost |-> cost,
     is_hidden_gem |-> is_hidden_gem, weather |-> weather]

StartLocation == [lat |-> 10000]

(* a variant that forgets to record the name *)
MarkScheduledForgotten(scheduled, name) == scheduled

(* globally_scheduled_activities.add(name) / scheduled_today.add(name) *)
MarkScheduled(scheduled, name) == scheduled \cup {name}

(* the block that appends an approved attraction: travel sub-entry,        *)
(* weather lookup, activity entry, running totals, scheduled-name sets     *)
PlaceAttraction(S, attraction, r, date, wx_up, last_day) ==
    LET travel_time == estimate_internal_travel_time(S.current_location,
                                                    attraction.location)
        with_travel == travel_time > 20
                       /\ is_activity_time_realistic(S.current_hour, "travel")
        hour == IF with_travel THEN S.current_hour + travel_time ELSE S.current_hour
        travel_entry ==
            IF with_travel
            THEN << Entry("travel_to", format_time_from_float(S.current_hour),
                          attraction.name, travel_time, "travel", 0, FALSE, None) >>
            ELSE <<>>
        weather_cache_key == WeatherKey(attraction.location, date)
        w == get_cached_or_fetch(S.cache, weather_cache_key, FALSE,
                                 get_weather(wx_up, attraction.location, date))
        activity_entry ==
            Entry("attraction", format_time_from_float(hour), attraction.name,
                  r.activity_time, attraction.type, attraction.estimated_cost,
                  attraction.is_hidden,
                  IF Truthy(w.value) THEN w.value ELSE None)
    IN [S EXCEPT
          !.entries = S.entries \o travel_entry \o <<activity_entry>>,
          !.current_hour = r.new_hour,
          !.total_activity_cost = S.total_activity_cost + attraction.estimated_cost,
          !.current_location = IF last_day THEN S.current_location
                               ELSE attraction.location,
          !.hidden_gems_count = S.hidden_gems_count
                                + (IF attraction.is_hidden THEN 1 ELSE 0),
          !.globally_scheduled_activities =
                MarkScheduled(S.globally_scheduled_activities, attraction.name),
          !.scheduled_today = IF last_day THEN S.scheduled_today
                              ELSE MarkScheduled(S.scheduled_today, attraction.name),
          !.cache = w.cache,
          !.cache_ops = S.cache_ops \cup {weather_cache_key},
          !.calls = IF w.fetched
                    THEN S.calls \cup {[who |-> "weather", up |-> wx_up]}
                    ELSE S.calls]

(* a variant that goes on through the list after placing an attraction *)
RECURSIVE EveningLoopNoBreak(_, _, _, _, _)
EveningLoopNoBreak(S, list, ctx, date, wx_up) ==
    IF list = <<>> THEN S
    ELSE LET attraction == Head(list)
             r == schedule_activity_safely(S.current_hour, attraction,
                                           attraction.type, ctx.daily_start_hour)
         IN IF attraction.name \in S.globally_scheduled_activities
            THEN EveningLoopNoBreak(S, Tail(list), ctx, date, wx_up)
            ELSE IF r.ok
            THEN EveningLoopNoBreak(PlaceAttraction(S, attraction, r, date, wx_up, FALSE),
                                    Tail(list), ctx, date, wx_up)
            ELSE EveningLoopNoBreak(S, Tail(list), ctx, date, wx_up)

(* Day 1 evening: the first attraction not yet scheduled that passes the   *)
(* timing check is placed, then the loop breaks                            *)
RECURSIVE EveningLoop(_, _, _, _, _)
EveningLoop(S, list, ctx, date, wx_up) ==
    IF list = <<>> THEN S
    ELSE LET attraction == Head(list)
             r == schedule_activity_safely(S.current_hour, attraction,
                                           attraction.type, ctx.daily_start_hour)
         IN IF attraction.name \in S.globally_scheduled_activities
            THEN EveningLoop(S, Tail(list), ctx, date, wx_up)
            ELSE IF r.ok
            THEN PlaceAttraction(S, attraction, r, date, wx_up, FALSE)
            ELSE EveningLoop(S, Tail(list), ctx, date, wx_up)

(* morning (end by 12.0) and afternoon (end by 17.0) loops of a regular day *)
RECURSIVE SlotLoop(_, _, _, _, _, _, _)
SlotLoop(S, list, count, end_by, ctx, date, wx_up) ==
    IF list = <<>> \/ count >= 2 THEN S
    ELSE LET attraction == Head(list)
             r == schedule_activity_safely(S.current_hour, attraction,
                                           attraction.type, ctx.daily_start_hour)
         IN IF \/ attraction.name \in S.globally_scheduled_activities
               \/ attraction.name \in S.scheduled_today
            THEN SlotLoop(S, Tail(list), count, end_by, ctx, date, wx_up)
            ELSE IF /\ r.ok
                    /\ r.new_hour <= end_by
                    /\ S.total_activity_cost + attraction.estimated_cost
                         <= ctx.activity_budget
            THEN SlotLoop(PlaceAttraction(S, attraction, r, date, wx_up, FALSE),
                          Tail(list), count + 1, end_by, ctx, date, wx_up)
            ELSE SlotLoop(S, Tail(list), count, end_by, ctx, date, wx_up)

(* a variant that charges the restaurant's estimated cost uncapped *)
MealUncapped(S, ctx, kind, time, restaurant, percent, duration_hours) ==
    IF S.total_meal_cost + restaurant.estimated_cost <= ctx.meal_budget
    THEN [S EXCEPT
            !.entries = Append(S.entries,
                 Entry(kind, time, restaurant.name, duration_hours,
                       "restaurant", restaurant.estimated_cost, FALSE, None)),
            !.total_meal_cost = S.total_meal_cost + restaurant.estimated_cost]
    ELSE S

(* a meal entry if the meal budget has room for it; the charge is capped   *)
(* at percent % of the meal budget                                         *)
Meal(S, ctx, kind, time, restaurant, percent, duration_hours) ==
    LET meal_cost == Min2(restaurant.estimated_cost,
                          (ctx.meal_budget * percent) \div 100)
    IN IF S.total_meal_cost + meal_cost <= ctx.meal_budget
       THEN [S EXCEPT
               !.entries = Append(S.entries,
                    Entry(kind, time, restaurant.name, duration_hours,
                          "restaurant", meal_cost, FALSE, None)),
               !.total_meal_cost = S.total_meal_cost + meal_cost]
       ELSE S

(* a variant that lets the evening attraction start until half past four *)
EveningCutoffHalfPast == 1600 + 50

(* current_hour <= 16.0: "Must start by 4 PM" *)
EveningCutoff == 1600

(* day_num == 1: travel, check-in, one evening attraction, dinner *)
Day1(S0, ctx, wx_up) ==
    LET date == ctx.start_date
        S1 == [S0 EXCEPT
                 !.entries = << Entry("travel_out", format_time_from_float(800),
                                      <<>>, ctx.initial_travel_time, "travel",
                                      0, FALSE, None) >>,
                 !.current_hour = 800 + ctx.initial_travel_time]
        S2 == IF ctx.chosen_hotel # None /\ S1.current_hour >= 1400
              THEN [S1 EXCEPT
                      !.entries = Append(S1.entries,
                          Entry("checkin",
                                format_time_from_float(Max2(S1.current_hour, 1400)),
                                ctx.chosen_hotel.name, 50, "hotel", 0, FALSE, None)),
                      !.current_hour = Max2(S1.current_hour + 50, 1450),
                      !.current_location = ctx.chosen_hotel.location]
              ELSE S1
        S3 == IF ctx.attractions # <<>> /\ S2.current_hour <= EveningCutoff
              THEN EveningLoop(S2, ctx.attractions, ctx, date, wx_up)
              ELSE S2
        dinner_time == Max2(S3.current_hour, 1900)
    IN IF ctx.restaurants # <<>> /\ is_activity_time_realistic(dinner_time, "restaurant")
       THEN Meal(S3, ctx, "dinner", format_time_from_float(dinner_time),
                 ctx.restaurants[1], 30, 150)
       ELSE S3

(* 1 < day_num < duration: morning slots, lunch, afternoon slots, dinner *)
MiddleDay(S0, ctx, day_num, wx_up) ==
    LET date == ctx.start_date + (day_num - 1)
        n == Len(ctx.attractions)
        start_attraction_index == (day_num - 2) * ctx.attractions_per_day + 1
        end_attraction_index == Min2((day_num - 1) * ctx.attractions_per_day + 1, n)
        (* attractions[start:end] with 0-based bounds *)
        day_attractions == SubSeq(ctx.attractions, start_attraction_index + 1,
                                  end_attraction_index)
        S1 == SlotLoop(S0, day_attractions, 0, 1200, ctx, date, wx_up)
        nr == Len(ctx.restaurants)
        S2 == IF ctx.restaurants # <<>> /\ is_activity_time_realistic(1200, "restaurant")
              THEN [Meal(S1, ctx, "lunch", 720, ctx.restaurants[(day_num % nr) + 1],
                         25, 100)
                    EXCEPT !.current_hour = 1300]
              ELSE S1
        remaining_attractions ==
            SelectSeq(ctx.attractions, LAMBDA a : a \notin Range(day_attractions))
        S3 == SlotLoop(S2, remaining_attractions, 0, 1700, ctx, date, wx_up)
    IN IF ctx.restaurants # <<>> /\ is_activity_time_realistic(1900, "restaurant")
       THEN Meal(S3, ctx, "dinner", 1140,
                 ctx.restaurants[((day_num - 1) % nr) + 1], 30, 150)
       ELSE S3

(* a variant that leaves one hour after the last activity, however early *)
LastDayLeavesAfterAnHour(S0, ctx, day_num, wx_up) ==
    LET date == ctx.start_date + (day_num - 1)
        remaining_attractions ==
            SelectSeq(ctx.attractions,
                      LAMBDA a : a.name \notin S0.globally_scheduled_activities)
        attraction == remaining_attractions[1]
        r == schedule_activity_safely(S0.current_hour, attraction, attraction.type,
                                      ctx.daily_start_hour)
        S1 == IF /\ remaining_attractions # <<>>
                 /\ S0.current_hour <= 1000
                 /\ r.ok
                 /\ r.new_hour <= 1200
                 /\ S0.total_activity_cost + attraction.estimated_cost
                      <= ctx.activity_budget
              THEN PlaceAttraction(S0, attraction, r, date, wx_up, TRUE)
              ELSE S0
        departure_time == S1.current_hour + 100
    IN [S1 EXCEPT
          !.entries = Append(S1.entries,
              Entry("return", format_time_from_float(departure_time), <<>>,
                    ctx.initial_travel_time, "travel", 0, FALSE, None))]

(* day_num == duration > 1: one morning attraction, then the return leg *)
LastDay(S0, ctx, day_num, wx_up) ==
    LET date == ctx.start_date + (day_num - 1)
        remaining_attractions ==
            SelectSeq(ctx.attractions,
                      LAMBDA a : a.name \notin S0.globally_scheduled_activities)
        attraction == remaining_attractions[1]
        r == schedule_activity_safely(S0.current_hour, attraction, attraction.type,
                                      ctx.daily_start_hour)
        S1 == IF /\ remaining_attractions # <<>>
                 /\ S0.current_hour <= 1000
                 /\ r.ok
                 /\ r.new_hour <= 1200
                 /\ S0.total_activity_cost + attraction.estimated_cost
                      <= ctx.activity_budget
              THEN PlaceAttraction(S0, attraction, r, date, wx_up, TRUE)
              ELSE S0
        departure_time == Max2(S1.current_hour + 100, 1400)
    IN [S1 EXCEPT
          !.entries = Append(S1.entries,
              Entry("return", format_time_from_float(departure_time), <<>>,
                    ctx.initial_travel_time, "travel", 0, FALSE, None))]

(* a variant that closes the last day with a hotel entry too *)
StayMarkerEveryDay(S, ctx, day_num) ==
    IF ctx.chosen_hotel # None
    THEN [S EXCEPT !.entries = Append(S.entries,
              Entry("stay", 1260, ctx.chosen_hotel.name, 0, "hotel", 0, FALSE, None))]
    ELSE S

(* the overnight marker closing every day but the last *)
StayMarker(S, ctx, day_num) ==
    IF ctx.chosen_hotel # None /\ day_num < ctx.duration
    THEN [S EXCEPT !.entries = Append(S.entries,
              Entry("stay", 1260, ctx.chosen_hotel.name, 0, "hotel", 0,
                    FALSE, None))]
    ELSE S

(* a variant whose days start at half past eight *)
DayStartAtHalfPastEight(S0) ==
    [S0 EXCEPT !.entries = <<>>, !.current_hour = 850, !.scheduled_today = {}]

(* the locals every day starts with *)
DayStart(S0) ==
    [S0 EXCEPT !.entries = <<>>, !.current_hour = 800, !.scheduled_today = {}]

(* one iteration of `for day_num in range(1, duration + 1)` *)
DayBody(S0, ctx, day_num, wx_up) ==
    StayMarker(IF day_num = 1 THEN Day1(DayStart(S0), ctx, wx_up)
               ELSE IF day_num < ctx.duration
               THEN MiddleDay(DayStart(S0), ctx, day_num, wx_up)
               ELSE LastDay(DayStart(S0), ctx, day_num, wx_up),
               ctx, day_num)

----------------------------------------------------------------------------
(* Candidate aggregation *)

(* for spot in hidden: spot['is_hidden'] = True; spot['tags'] += ['hidden'] *)
MarkHidden(spot) ==
    [spot EXCEPT !.is_hidden = TRUE, !.tags = spot.tags \cup {"hidden"}]

(* a variant in which a key keeps the value of its first occurrence *)
MergeByNameKeepFirst(spots) ==
    LET firsts == SelectSeq([i \in 1..Len(spots) |-> i],
                      LAMBDA i : \A j \in 1..(i - 1) : spots[j].name # spots[i].name)
    IN [x \in 1..Len(firsts) |-> spots[firsts[x]]]

(* list({spot['name']: spot for spot in spots}.values()): a key keeps the  *)
(* position of its first occurrence and the value of its last one          *)
MergeByName(spots) ==
    LET firsts == SelectSeq([i \in 1..Len(spots) |-> i],
                      LAMBDA i : \A j \in 1..(i - 1) : spots[j].name # spots[i].name)
        last(i) == CHOOSE j \in 1..Len(spots) :
                      /\ spots[j].name = spots[i].name
                      /\ \A k \in (j + 1)..Len(spots) : spots[k].name # spots[i].name
    IN [x \in 1..Len(firsts) |-> spots[last(firsts[x])]]

WithScore(spot, interests) ==
    [f \in DOMAIN spot \cup {"priority_score"} |->
        IF f = "priority_score" THEN get_priority_score(spot, interests)
        ELSE spot[f]]

Aggregated(pois_list, hidden_list, interests) ==
    LET marked == [i \in 1..Len(hidden_list) |-> MarkHidden(hidden_list[i])]
        merged == MergeByName(pois_list \o marked)
        unique == deduplicate_attractions(merged)
    IN [i \in 1..Len(unique) |-> WithScore(unique[i], interests)]

----------------------------------------------------------------------------
(* State *)

VARIABLES
    pc,                  \* where generate_itinerary stands
    req,                 \* request.data
    response,            \* the Response returned, None while running
    saved,               \* UserItinerary documents saved so far
    cache,               \* django.core.cache
    calls,               \* collaborator functions invoked by this request
    cache_ops,           \* cache keys read or written by this request
    budget_allocation, predicted_budget, route,
    pois, hidden, all_spots, hotels, restaurants, attractions,
    chosen_hotel, hotel_cost_total,
    day_num, day_wise_itinerary,
    total_activity_cost, total_meal_cost, hidden_gems_count,
    current_location, globally_scheduled_activities,
    fn_in, fn_out,       \* argument and results of a function applied alone
    parked               \* the locals of a second request while it is not running

listVars == <<pois, hidden, all_spots, hotels, restaurants, attractions>>

hotelVars == <<chosen_hotel, hotel_cost_total>>

schedVars == <<day_num, day_wise_itinerary, total_activity_cost, total_meal_cost,
           hidden_gems_count, current_location, globally_scheduled_activities>>

fnVars == <<fn_in, fn_out>>

vars == <<pc, req, response, saved, cache, calls, cache_ops,
          budget_allocation, predicted_budget, route, listVars, hotelVars, schedVars, fnVars, parked>>

(* locals of a request before it runs *)
FreshLocals ==
    /\ response = None
    /\ calls = {}
    /\ cache_ops = {}
    /\ budget_allocation = None
    /\ predicted_budget = 0
    /\ route = None
    /\ pois = <<>> /\ hidden = <<>> /\ all_spots = <<>>
    /\ hotels = <<>> /\ restaurants = <<>> /\ attractions = <<>>
    /\ chosen_hotel = None /\ hotel_cost_total = 0
    /\ day_num = 0 /\ day_wise_itinerary = <<>>
    /\ total_activity_cost = 0 /\ total_meal_cost = 0 /\ hidden_gems_count = 0
    /\ current_location = StartLocation
    /\ globally_scheduled_activities = {}

Init ==
    /\ pc = "idle"
    /\ req = None
    /\ saved = <<>>
    /\ cache = <<>>
    /\ FreshLocals
    /\ fn_in = <<>> /\ fn_out = <<>>
    /\ parked = None

duration == (req.end_date - req.start_date) + 1

initial_travel_time == Min2(route.duration_hours, 1200)

(* budget * 1.1 *)
BudgetWithBuffer(budget) == (budget * 11) \div 10

----------------------------------------------------------------------------
(* generate_itinerary, block by block *)

(* validate_request_data, parameter extraction, budget allocation *)
Validate(data) ==
    /\ pc = "idle"
    /\ req' = data
    /\ LET v == validate_request_data(data)
       IN IF ~v.ok
          THEN /\ response' = [status |-> 400, error |-> v.error, data |-> None]
               /\ pc' = "done"
               /\ UNCHANGED budget_allocation
          ELSE /\ budget_allocation' =
                     allocate_budget_realistically(data.budget,
                         (data.end_date - data.start_date) + 1)
               /\ pc' = "predict"
               /\ UNCHANGED response
    /\ UNCHANGED <<saved, cache, calls, cache_ops, predicted_budget,
                   route, listVars, hotelVars, schedVars, fnVars, parked>>

Predictions == {5000}

(* predict_budget, or budget * 1.1 when it raises *)
PredictBudget(up, amount) ==
    /\ pc = "predict"
    /\ predicted_budget' = IF up THEN amount ELSE BudgetWithBuffer(req.budget)
    /\ calls' = calls \cup {[who |-> "predict", up |-> up]}
    /\ pc' = "route"
    /\ UNCHANGED <<req, response, saved, cache, cache_ops,
                   budget_allocation, route, listVars, hotelVars, schedVars, fnVars, parked>>

DefaultRoute == [distance_km |-> 200, duration_hours |-> 600]

(* route = get_cached_or_fetch(route_cache_key, get_route_info, ...) *)
FetchRoute(up, live) ==
    /\ pc = "route"
    /\ LET g == get_cached_or_fetch(cache, RouteKey, FALSE, get_route_info(up, live))
       IN /\ route' = IF Truthy(g.value) THEN g.value ELSE DefaultRoute
          /\ cache' = g.cache
          /\ calls' = IF g.fetched THEN calls \cup {[who |-> "route", up |-> up]}
                      ELSE calls
    /\ cache_ops' = cache_ops \cup {RouteKey}
    /\ pc' = "places"
    /\ UNCHANGED <<req, response, saved, budget_allocation,
                   predicted_budget, listVars, hotelVars, schedVars, fnVars, parked>>

(* pois = get_cached_or_fetch(places_cache_key, get_places, ...) or [] *)
FetchPlaces(up, live) ==
    /\ pc = "places"
    /\ LET key == PlacesKey(req.interests)
           g == get_cached_or_fetch(cache, key, FALSE,
                    get_places(up, live, Destination, req.interests))
       IN /\ pois' = IF Truthy(g.value) THEN g.value.items ELSE <<>>
          /\ cache' = g.cache
          /\ calls' = IF g.fetched THEN calls \cup {[who |-> "places", up |-> up]}
                      ELSE calls
          /\ cache_ops' = cache_ops \cup {key}
    /\ pc' = "hidden"
    /\ UNCHANGED <<req, response, saved, budget_allocation,
                   predicted_budget, route, hidden, all_spots, hotels, restaurants,
                   attractions, hotelVars, schedVars, fnVars, parked>>

(* hidden = get_cached_or_fetch(hidden_cache_key, get_hidden_spots, ...) or [] *)
FetchHidden(up, live) ==
    /\ pc = "hidden"
    /\ LET key == HiddenKey(req.interests)
           g == get_cached_or_fetch(cache, key, FALSE, get_hidden_spots(up, live))
       IN /\ hidden' = IF Truthy(g.value) THEN g.value.items ELSE <<>>
          /\ cache' = g.cache
          /\ calls' = IF g.fetched THEN calls \cup {[who |-> "hidden", up |-> up]}
                      ELSE calls
          /\ cache_ops' = cache_ops \cup {key}
    /\ pc' = "aggregate"
    /\ UNCHANGED <<req, response, saved, budget_allocation,
                   predicted_budget, route, pois, all_spots, hotels, restaurants,
                   attractions, hotelVars, schedVars, fnVars, parked>>

(* mark hidden, combine, deduplicate, score, categorize *)
Aggregate ==
    /\ pc = "aggregate"
    /\ LET spots == Aggregated(pois, hidden, req.interests)
       IN /\ all_spots' = spots
          /\ hotels' = SelectSeq(spots, LAMBDA x : x.type = "hotel")
          /\ restaurants' = SortedBy(SelectSeq(spots, LAMBDA x : x.type = "restaurant"),
                                     "estimated_cost")
          /\ attractions' = SortedBy(SelectSeq(spots,
                                        LAMBDA x : x.type \notin {"hotel", "restaurant"}),
                                     "priority_score")
    /\ pc' = "hotel"
    /\ UNCHANGED <<req, response, saved, cache, calls, cache_ops,
                   budget_allocation, predicted_budget, route, pois, hidden,
                   hotelVars, schedVars, fnVars, parked>>

(* a variant that lets a remaining budget of exactly 0 through *)
BudgetInsufficientStrict(remaining) == remaining < 0

(* remaining_budget <= 0 *)
BudgetInsufficient(remaining) == remaining <= 0

(* hotel selection and the remaining-budget test *)
SelectHotel ==
    /\ pc = "hotel"
    /\ LET sel == select_budget_appropriate_hotel(hotels, budget_allocation, duration)
           remaining == req.budget - sel.total_cost
       IN /\ chosen_hotel' = sel.hotel
          /\ hotel_cost_total' = sel.total_cost
          /\ IF BudgetInsufficient(remaining)
             THEN /\ response' = [status |-> 400,
                                  error |-> "Budget insufficient after accommodation costs",
                                  data |-> None]
                  /\ pc' = "done"
                  /\ UNCHANGED day_num
             ELSE /\ pc' = "schedule"
                  /\ day_num' = 1
                  /\ UNCHANGED response
    /\ UNCHANGED <<req, saved, cache, calls, cache_ops,
                   budget_allocation, predicted_budget, route, listVars,
                   day_wise_itinerary, total_activity_cost, total_meal_cost,
                   hidden_gems_count, current_location,
                   globally_scheduled_activities, fnVars, parked>>

remaining_budget == req.budget - hotel_cost_total

activity_budget == (remaining_budget * 6) \div 10

meal_budget == (remaining_budget * 4) \div 10

attractions_per_day == Max2(2, Min2(3, Len(attractions) \div duration))

SchedulerContext ==
    [start_date |-> req.start_date, duration |-> duration,
     initial_travel_time |-> initial_travel_time,
     chosen_hotel |-> chosen_hotel, attractions |-> attractions,
     restaurants |-> restaurants, activity_budget |-> activity_budget,
     meal_budget |-> meal_budget, attractions_per_day |-> attractions_per_day,
     daily_start_hour |-> 800]

(* the locals of generate_itinerary as the day loop sees them *)
LoopLocals ==
    [entries |-> <<>>, current_hour |-> 800,
     current_location |-> current_location,
     total_activity_cost |-> total_activity_cost,
     total_meal_cost |-> total_meal_cost,
     hidden_gems_count |-> hidden_gems_count,
     globally_scheduled_activities |-> globally_scheduled_activities,
     scheduled_today |-> {},
     cache |-> cache, cache_ops |-> cache_ops, calls |-> calls]

(* the locals as one day leaves them *)
StoreDay(S) ==
    /\ day_wise_itinerary' = Append(day_wise_itinerary, S.entries)
    /\ current_location' = S.current_location
    /\ total_activity_cost' = S.total_activity_cost
    /\ total_meal_cost' = S.total_meal_cost
    /\ hidden_gems_count' = S.hidden_gems_count
    /\ globally_scheduled_activities' = S.globally_scheduled_activities
    /\ cache' = S.cache
    /\ cache_ops' = S.cache_ops
    /\ calls' = S.calls

(* one pass of the day loop; wx_up: the weather service answers that day *)
BuildDay(wx_up) ==
    /\ pc = "schedule"
    /\ StoreDay(DayBody(LoopLocals, SchedulerContext, day_num, wx_up))
    /\ IF day_num < duration
       THEN day_num' = day_num + 1 /\ pc' = "schedule"
       ELSE day_num' = day_num /\ pc' = "reconcile"
    /\ UNCHANGED <<req, response, saved, budget_allocation,
                   predicted_budget, route, listVars, hotelVars, fnVars, parked>>

FirstN(list, n) == SubSeq(list, 1, Min2(Len(list), n))

(* round(total_cost / budget * 100, 1), in tenths of a percent *)
BudgetUtilization(total_cost, budget) == (2000 * total_cost + budget) \div (2 * budget)

ResponseData(total_cost) ==
    [day_wise_itinerary |-> day_wise_itinerary,
     hotel_details |->
        IF chosen_hotel # None
        THEN [name |-> chosen_hotel.name,
              cost_per_night |-> chosen_hotel.estimated_cost,
              total_nights |-> Max2(1, duration - 1),
              total_cost |-> hotel_cost_total,
              rating |-> chosen_hotel.rating,
              location |-> chosen_hotel.location]
        ELSE None,
     alternatives |->
        [hotels |-> FirstN(SelectSeq(hotels, LAMBDA h : h # chosen_hotel), 5),
         attractions |-> FirstN(SelectSeq(attractions,
                LAMBDA a : a.name \notin globally_scheduled_activities), 10)],
     cost_breakdown |->
        [accommodation |-> hotel_cost_total,
         activities |-> total_activity_cost,
         meals |-> total_meal_cost,
         total |-> total_cost],
     summary |->
        [total_days |-> duration,
         proposed_budget |-> req.budget,
         predicted_budget |-> predicted_budget,
         actual_cost |-> total_cost,
         savings |-> Max2(0, req.budget - total_cost),
         total_attractions |-> Cardinality(globally_scheduled_activities),
         hidden_gems_count |-> hidden_gems_count,
         budget_utilization |-> BudgetUtilization(total_cost, req.budget)],
     route_info |-> route,
     status |-> "success"]

(* a variant with the factor 11 for 1.1 *)
ExceedsBudgetFactor11(total_cost, budget) == total_cost > budget * 11

(* total_cost > budget * 1.1 *)
ExceedsBudget(total_cost, budget) == total_cost * 10 > budget * 11

(* final totals, the 10 % budget test, the response and its saving;        *)
(* save_ok = FALSE is UserItinerary.save() raising, which is only logged   *)
Reconcile(save_ok) ==
    /\ pc = "reconcile"
    /\ LET total_cost == hotel_cost_total + total_activity_cost + total_meal_cost
       IN IF ExceedsBudget(total_cost, req.budget)
          THEN /\ response' = [status |-> 400,
                               error |-> "Unable to create itinerary within reasonable budget",
                               data |-> None]
               /\ UNCHANGED saved
          ELSE /\ response' = [status |-> 200, error |-> "",
                               data |-> ResponseData(total_cost)]
               /\ saved' = IF save_ok THEN Append(saved, ResponseData(total_cost))
                           ELSE saved
    /\ pc' = "done"
    /\ UNCHANGED <<req, cache, calls, cache_ops, budget_allocation,
                   predicted_budget, route, listVars, hotelVars, schedVars, fnVars, parked>>

RouteOutcomes ==
    {[up |-> TRUE, live |-> r] : r \in LiveRoutes}
        \cup {[up |-> FALSE, live |-> None]}

PlaceOutcomes ==
    {[up |-> TRUE, live |-> l] : l \in LivePlaces}
        \cup {[up |-> FALSE, live |-> <<>>]}

HiddenOutcomes ==
    {[up |-> TRUE, live |-> l] : l \in LiveHidden}
        \cup {[up |-> FALSE, live |-> <<>>]}

Next ==
    \/ \E data \in Requests : Validate(data)
    \/ \E up \in BOOLEAN, amount \in Predictions : PredictBudget(up, amount)
    \/ \E o \in RouteOutcomes : FetchRoute(o.up, o.live)
    \/ \E o \in PlaceOutcomes : FetchPlaces(o.up, o.live)
    \/ \E o \in HiddenOutcomes : FetchHidden(o.up, o.live)
    \/ Aggregate
    \/ SelectHotel
    \/ \E wx_up \in BOOLEAN : BuildDay(wx_up)
    \/ \E save_ok \in BOOLEAN : Reconcile(save_ok)

Spec == Init /\ [][Next]_vars

----------------------------------------------------------------------------
(* Functions applied alone: the deduplication and the hotel selection on   *)
(* inputs drawn from bounded sets                                          *)

MaxDedupLen == 3

MaxHotels == 3

(* lists of at most n distinct elements of a catalogue, in any order *)
ListsOf(cat, n) ==
    LET idx == UNION {[1..k -> 1..Len(cat)] : k \in 0..n}
        inj == {f \in idx : \A i, j \in DOMAIN f : i # j => f[i] # f[j]}
    IN {[i \in DOMAIN f |-> cat[f[i]]] : f \in inj}

nTeaPadded == <<0, 120, 5, 1, 0>>
nPort == <<16, 15, 18, 20>>
nBlank == <<0, 0>>

DedupCatalogue ==
    << Spot(nTea,       "nature",     10100, 200, 100, 46),
       Spot(nTeas,      "nature",     10500, 300, 150, 40),
       Spot(nTeaPadded, "heritage",   10800, 100, 0,   40),
       Spot(nFort,      "heritage",   10900, 300, 200, 42),
       Spot(nPort,      "beach",      10910, 200, 0,   44),
       Spot(nInn,       "hotel",      10103, 0,   500, 40),
       Spot(nHut,       "restaurant", 10106, 100, 150, 41),
       Spot(nBlank,     "nature",     10400, 100, 50,  30),
       Spot(nCave,      "adventure",  10120, 150, 100, 0) >>

DedupInputs == ListsOf(DedupCatalogue, MaxDedupLen)

nVilla == <<22, 9, 12, 12, 1>>

HotelCatalogue ==
    << Spot(nInn,   "hotel", 10103, 0, 500,  40),
       Spot(nSpa,   "hotel", 10200, 0, 1500, 45),
       Spot(nLodge, "hotel", 10050, 0, 2500, 48),
       Spot(nVilla, "hotel", 10300, 0, 800,  30) >>

HotelBudgets == {1000, 1600, 5000}

HotelInputs ==
    [hotels : ListsOf(HotelCatalogue, MaxHotels), budget : HotelBudgets,
     duration : 1..MaxDuration]

InitAlone(kind, inputs) ==
    /\ pc = kind
    /\ req = None
    /\ saved = <<>>
    /\ cache = <<>>
    /\ FreshLocals
    /\ fn_in \in inputs
    /\ fn_out = <<>>
    /\ parked = None

othersAlone == <<req, response, saved, cache, calls, cache_ops, budget_allocation,
                 predicted_budget, route, listVars, hotelVars, schedVars, parked>>

(* all_spots = deduplicate_attractions(all_spots), once and once more *)
ApplyDedup ==
    /\ pc = "dedup"
    /\ Len(fn_out) < 2
    /\ fn_out' = Append(fn_out,
                    deduplicate_attractions(IF fn_out = <<>> THEN fn_in
                                            ELSE fn_out[Len(fn_out)]))
    /\ UNCHANGED <<pc, fn_in, othersAlone>>

SpecDedup == InitAlone("dedup", DedupInputs) /\ [][ApplyDedup]_vars

(* select_budget_appropriate_hotel(hotels, allocate_budget_realistically(..), duration) *)
ApplySelectHotel ==
    /\ pc = "select"
    /\ fn_out = <<>>
    /\ fn_out' = << select_budget_appropriate_hotel(fn_in.hotels,
                        allocate_budget_realistically(fn_in.budget, fn_in.duration),
                        fn_in.duration) >>
    /\ UNCHANGED <<pc, fn_in, othersAlone>>

SpecHotel == InitAlone("select", HotelInputs) /\ [][ApplySelectHotel]_vars

(* spots as either place query may return them, for the scoring alone *)
ScoreInputs ==
    [spot : {[Spot(nTea, type, 10100, 200, cost, rating) EXCEPT !.tags = tags] :
                type \in {"nature", "heritage"},
                cost \in {100, 8000, 9000},
                rating \in {0, 40, 42, 45, 46},
                tags \in {{}, {"offbeat"}, {"family"}}},
     from_hidden : BOOLEAN,
     interests : {<<>>, <<"nature">>}]

(* the hidden-spot marking and spot['priority_score'] = get_priority_score(..) *)
ApplyScore ==
    /\ pc = "score"
    /\ fn_out = <<>>
    /\ fn_out' = << WithScore(IF fn_in.from_hidden THEN MarkHidden(fn_in.spot)
                              ELSE fn_in.spot,
                              fn_in.interests) >>
    /\ UNCHANGED <<pc, fn_in, othersAlone>>

SpecScore == InitAlone("score", ScoreInputs) /\ [][ApplyScore]_vars

(* get_cached_or_fetch alone, called again and again on one cache.  A call *)
(* names the key, whether the remote service answers (up), whether         *)
(* fetch_function raises, and what fetch_function returns otherwise.       *)
CachedCall(key, up, raised, fresh) ==
    [key |-> key, up |-> up, raised |-> raised, fresh |-> fresh]

CachedCalls ==
    { CachedCall(RouteKey, up, raised,
                 get_route_info(up, [distance_km |-> 230, duration_hours |-> 750])) :
        up \in BOOLEAN, raised \in BOOLEAN }
    \cup
    { CachedCall(PlacesKey(c[1]), up, raised,
                 get_places(up, c[2], Destination, c[1])) :
        up \in BOOLEAN, raised \in BOOLEAN,
        c \in {<<>>, <<"weather">>} \X {<<>>, <<GeneralCatalogue[1]>>} }
    \cup
    { CachedCall(HiddenKey(<<>>), up, raised, get_hidden_spots(up, HiddenCatalogue)) :
        up \in BOOLEAN, raised \in BOOLEAN }
    \cup
    { CachedCall(WeatherKey(StartLocation, 0), up, raised,
                 get_weather(up, StartLocation, 0)) :
        up \in BOOLEAN, raised \in BOOLEAN }

cacheOthers == <<pc, req, response, saved, calls, cache_ops, budget_allocation,
                 predicted_budget, route, listVars, hotelVars, schedVars, parked>>

(* one call of get_cached_or_fetch(cache_key, fetch_function, ...) *)
CallCached(c) ==
    /\ pc = "cache"
    /\ LET g == get_cached_or_fetch(cache, c.key, c.raised, c.fresh)
       IN /\ cache' = g.cache
          /\ fn_out' = << [value |-> g.value, fetched |-> g.fetched] >>
    /\ fn_in' = c
    /\ UNCHANGED cacheOthers

(* the timeout given to cache.set has passed for a key *)
Expire(key) ==
    /\ pc = "cache"
    /\ key \in DOMAIN cache
    /\ cache' = [k \in DOMAIN cache \ {key} |-> cache[k]]
    /\ fn_out' = <<>>
    /\ UNCHANGED <<fn_in, cacheOthers>>

NextCache ==
    \/ \E c \in CachedCalls : CallCached(c)
    \/ \E key \in DOMAIN cache : Expire(key)

SpecCache == InitAlone("cache", {<<>>}) /\ [][NextCache]_vars

----------------------------------------------------------------------------
(* Two requests served at once.  Everything generate_itinerary assigns is  *)
(* a local of one call; the calls share the cache and the database.  The   *)
(* request that is not running keeps its locals in `parked`.               *)

RequestLocals ==
    [pc |-> pc, req |-> req, response |-> response,
     calls |-> calls, cache_ops |-> cache_ops,
     budget_allocation |-> budget_allocation,
     predicted_budget |-> predicted_budget, route |-> route,
     pois |-> pois, hidden |-> hidden, all_spots |-> all_spots,
     hotels |-> hotels, restaurants |-> restaurants, attractions |-> attractions,
     chosen_hotel |-> chosen_hotel, hotel_cost_total |-> hotel_cost_total,
     day_num |-> day_num, day_wise_itinerary |-> day_wise_itinerary,
     total_activity_cost |-> total_activity_cost,
     total_meal_cost |-> total_meal_cost,
     hidden_gems_count |-> hidden_gems_count,
     current_location |-> current_location,
     globally_scheduled_activities |-> globally_scheduled_activities]

(* the locals of a call that has not started *)
IdleLocals ==
    [pc |-> "idle", req |-> None, response |-> None,
     calls |-> {}, cache_ops |-> {},
     budget_allocation |-> None, predicted_budget |-> 0, route |-> None,
     pois |-> <<>>, hidden |-> <<>>, all_spots |-> <<>>,
     hotels |-> <<>>, restaurants |-> <<>>, attractions |-> <<>>,
     chosen_hotel |-> None, hotel_cost_total |-> 0,
     day_num |-> 0, day_wise_itinerary |-> <<>>,
     total_activity_cost |-> 0, total_meal_cost |-> 0,
     hidden_gems_count |-> 0, current_location |-> StartLocation,
     globally_scheduled_activities |-> {}]

(* a variant whose scheduled-name set is one module-level set *)
ResumeSharingScheduled(L) ==
    /\ pc' = L.pc /\ req' = L.req /\ response' = L.response
    /\ calls' = L.calls /\ cache_ops' = L.cache_ops
    /\ budget_allocation' = L.budget_allocation
    /\ predicted_budget' = L.predicted_budget /\ route' = L.route
    /\ pois' = L.pois /\ hidden' = L.hidden /\ all_spots' = L.all_spots
    /\ hotels' = L.hotels /\ restaurants' = L.restaurants
    /\ attractions' = L.attractions
    /\ chosen_hotel' = L.chosen_hotel /\ hotel_cost_total' = L.hotel_cost_total
    /\ day_num' = L.day_num /\ day_wise_itinerary' = L.day_wise_itinerary
    /\ total_activity_cost' = L.total_activity_cost
    /\ total_meal_cost' = L.total_meal_cost
    /\ hidden_gems_count' = L.hidden_gems_count
    /\ current_location' = L.current_location
    /\ UNCHANGED globally_scheduled_activities

(* the other call goes on with its own locals *)
Resume(L) ==
    /\ pc' = L.pc /\ req' = L.req /\ response' = L.response
    /\ calls' = L.calls /\ cache_ops' = L.cache_ops
    /\ budget_allocation' = L.budget_allocation
    /\ predicted_budget' = L.predicted_budget /\ route' = L.route
    /\ pois' = L.pois /\ hidden' = L.hidden /\ all_spots' = L.all_spots
    /\ hotels' = L.hotels /\ restaurants' = L.restaurants
    /\ attractions' = L.attractions
    /\ chosen_hotel' = L.chosen_hotel /\ hotel_cost_total' = L.hotel_cost_total
    /\ day_num' = L.day_num /\ day_wise_itinerary' = L.day_wise_itinerary
    /\ total_activity_cost' = L.total_activity_cost
    /\ total_meal_cost' = L.total_meal_cost
    /\ hidden_gems_count' = L.hidden_gems_count
    /\ current_location' = L.current_location
    /\ globally_scheduled_activities' = L.globally_scheduled_activities

(* the server leaves one call and runs the other *)
Switch ==
    /\ parked # None
    /\ parked' = RequestLocals
    /\ Resume(parked)
    /\ UNCHANGED <<saved, cache, fnVars>>

TwoRequests ==
    { [BaseRequest EXCEPT !.end_date = 2],
      [BaseRequest EXCEPT !.end_date = 1, !.interests = <<"nature">>] }

TwoRouteOutcomes ==
    { [up |-> TRUE, live |-> [distance_km |-> 600, duration_hours |-> 1300]],
      [up |-> FALSE, live |-> None] }

TwoPlaceOutcomes ==
    { [up |-> TRUE, live |-> <<GeneralCatalogue[1], GeneralCatalogue[6]>>],
      [up |-> FALSE, live |-> <<>>] }

TwoHiddenOutcomes ==
    { [up |-> TRUE, live |-> HiddenCatalogue] }

InitTwo ==
    /\ pc = "idle"
    /\ req = None
    /\ saved = <<>>
    /\ cache = <<>>
    /\ FreshLocals
    /\ fn_in = <<>> /\ fn_out = <<>>
    /\ parked = IdleLocals

NextTwo ==
    \/ \E data \in TwoRequests : Validate(data)
    \/ \E amount \in Predictions : PredictBudget(TRUE, amount)
    \/ \E o \in TwoRouteOutcomes : FetchRoute(o.up, o.live)
    \/ \E o \in TwoPlaceOutcomes : FetchPlaces(o.up, o.live)
    \/ \E o \in TwoHiddenOutcomes : FetchHidden(o.up, o.live)
    \/ Aggregate
    \/ SelectHotel
    \/ \E wx_up \in BOOLEAN : BuildDay(wx_up)
    \/ Reconcile(TRUE)
    \/ Switch

SpecTwo == InitTwo /\ [][NextTwo]_vars

----------------------------------------------------------------------------
(* Properties.  Vocabulary shared by the statements below.                 *)

Succeeded == pc = "done" /\ response # None /\ response.status = 200

Failed(error) == pc = "done" /\ response # None /\ response.error = error

BudgetInsufficientError == "Budget insufficient after accommodation costs"

BudgetExceededError == "Unable to create itinerary within reasonable budget"

EntriesOf(days, kinds) == SelectSeq(FlattenSeq(days), LAMBDA e : e.kind \in kinds)

AttractionEntries == EntriesOf(day_wise_itinerary, {"attraction"})

MealEntries == EntriesOf(day_wise_itinerary, {"lunch", "dinner"})

CostOf(entries) == SumSeq([i \in 1..Len(entries) |-> entries[i].cost])

Called(who, up) == [who |-> who, up |-> up] \in calls

----------------------------------------------------------------------------
(* C1: no attraction name appears in more than one scheduled attraction    *)
(* entry across all days of the plan, at any point of its construction,    *)
(* and every scheduled name is in the global scheduled-name set that the   *)
(* slot loops consult.                                                     *)
C1_NoAttractionTwice ==
    LET es == AttractionEntries
    IN /\ \A i, j \in 1..Len(es) : i # j => es[i].name # es[j].name
       /\ \A i \in 1..Len(es) : es[i].name \in globally_scheduled_activities

(* a returned three-day plan with attractions on three different days,     *)
(* each later slot loop having met names already scheduled                 *)
C1_Witness ==
    /\ Succeeded
    /\ duration = 3
    /\ \A d \in 1..3 :
          \E i \in 1..Len(day_wise_itinerary[d]) :
              day_wise_itinerary[d][i].kind = "attraction"

----------------------------------------------------------------------------
(* C2: a returned itinerary reports total = accommodation + activities +   *)
(* meals, these being the hotel total, the sum of the scheduled attraction *)
(* costs and the sum of the scheduled meal costs, and total <= 1.1 times   *)
(* the budget; when the sum exceeds 1.1 times the budget the request fails *)
(* with the budget-exceeded error, returns no itinerary and saves nothing. *)
C2_TotalWithinBudget ==
    LET hotel == IF chosen_hotel = None THEN 0
                 ELSE chosen_hotel.estimated_cost * Max2(1, duration - 1)
        sum == hotel + CostOf(AttractionEntries) + CostOf(MealEntries)
    IN /\ Succeeded =>
            LET c == response.data.cost_breakdown
            IN /\ c.accommodation = hotel
               /\ c.activities = CostOf(AttractionEntries)
               /\ c.meals = CostOf(MealEntries)
               /\ c.total = c.accommodation + c.activities + c.meals
               /\ c.total * 10 <= req.budget * 11
       /\ (pc = "done" /\ day_wise_itinerary # <<>> /\ sum * 10 > req.budget * 11) =>
            /\ response = [status |-> 400, error |-> BudgetExceededError,
                           data |-> None]
            /\ saved = <<>>
       /\ saved # <<>> => Succeeded /\ saved = <<response.data>>

(* a returned itinerary with a hotel, a paid attraction and a paid meal *)
C2_Witness ==
    /\ Succeeded
    /\ response.data.cost_breakdown.accommodation > 0
    /\ response.data.cost_breakdown.activities > 0
    /\ response.data.cost_breakdown.meals > 0
    /\ saved # <<>>

----------------------------------------------------------------------------
(* C3: no scheduled attraction entry (a spot that is neither hotel nor     *)
(* restaurant) has a listed start before 07:00 or a listed start plus      *)
(* duration after 18:00.  Times are minutes, durations hundredths of hours. *)
C3_AttractionsInDaylight ==
    \A i \in 1..Len(AttractionEntries) :
        LET e == AttractionEntries[i]
        IN /\ e.time >= 7 * 60
           /\ e.time * 100 + e.duration_hours * 60 <= 18 * 60 * 100

----------------------------------------------------------------------------
(* C4: a single-day trip has no hotel, accommodation cost 0, and its one   *)
(* day holds both the outbound travel leg and a return travel leg.         *)
C4_SingleDayRoundTrip ==
    (Succeeded /\ duration = 1) =>
        /\ response.data.hotel_details = None
        /\ response.data.cost_breakdown.accommodation = 0
        /\ Len(response.data.day_wise_itinerary) = 1
        /\ \E i \in 1..Len(response.data.day_wise_itinerary[1]) :
              response.data.day_wise_itinerary[1][i].kind = "travel_out"
        /\ \E i \in 1..Len(response.data.day_wise_itinerary[1]) :
              response.data.day_wise_itinerary[1][i].kind = "return"

----------------------------------------------------------------------------
(* C5: for a returned itinerary with a hotel, hotel total cost = price per *)
(* night * max(1, duration - 1), and either the total is within 60 % of    *)
(* the budget or the returned itinerary carries an indication that the     *)
(* relaxed or the cheapest-fallback selection was used: a field of the     *)
(* hotel details other than those describing the hotel and its cost.       *)
HotelDetailFields ==
    {"name", "cost_per_night", "total_nights", "total_cost", "rating", "location"}

C5_HotelCostOrIndication ==
    (Succeeded /\ response.data.hotel_details # None) =>
        LET h == response.data.hotel_details
        IN /\ h.total_cost = h.cost_per_night * Max2(1, duration - 1)
           /\ \/ h.total_cost * 10 <= req.budget * 6
              \/ (DOMAIN h) \ HotelDetailFields # {}

----------------------------------------------------------------------------
(* C6: on a multi-day trip with at least one hotel candidate the selector  *)
(* returns a hotel, chosen by the first pass that has a candidate: the     *)
(* highest value score among the hotels whose total is within 60 % of the  *)
(* budget; else the highest value score among those within 1.5 times that; *)
(* else the lowest price per night.  value score = rating /                *)
(* max(price / 1000, 1), compared here by cross-multiplication.            *)
C6_ThreePasses ==
    (fn_out # <<>> /\ fn_in.duration > 1 /\ fn_in.hotels # <<>>) =>
        LET hs == fn_in.hotels
            nights == fn_in.duration - 1
            chosen == fn_out[1].hotel
            pass1 == {i \in 1..Len(hs) :
                        hs[i].estimated_cost * nights * 10 <= fn_in.budget * 6}
            pass2 == {i \in 1..Len(hs) :
                        hs[i].estimated_cost * nights * 10 <= fn_in.budget * 9}
            AtLeast(a, b) == a.rating * Max2(b.estimated_cost, 1000)
                               >= b.rating * Max2(a.estimated_cost, 1000)
            BestOf(pass) == /\ \E i \in pass : chosen = hs[i]
                            /\ \A j \in pass : AtLeast(chosen, hs[j])
        IN /\ chosen # None
           /\ fn_out[1].total_cost = chosen.estimated_cost * nights
           /\ IF pass1 # {} THEN BestOf(pass1)
              ELSE IF pass2 # {} THEN BestOf(pass2)
              ELSE /\ \E i \in 1..Len(hs) : chosen = hs[i]
                   /\ \A j \in 1..Len(hs) : chosen.estimated_cost <= hs[j].estimated_cost

(* the relaxed pass decides: no hotel within 60 % of the budget, the       *)
(* returned one within 90 %, and it is not the first of the list           *)
C6_Witness ==
    /\ fn_out # <<>>
    /\ fn_in.duration > 1
    /\ Len(fn_in.hotels) >= 2
    /\ \A i \in 1..Len(fn_in.hotels) :
          fn_in.hotels[i].estimated_cost * (fn_in.duration - 1) * 10 > fn_in.budget * 6
    /\ fn_out[1].total_cost * 10 <= fn_in.budget * 9
    /\ fn_in.hotels[1] # fn_out[1].hotel

----------------------------------------------------------------------------
(* C7: a request that fails validation (a required field missing, budget   *)
(* not a positive number or below 1000, unparsable dates, start after end, *)
(* start in the past, span over 30 days) is answered with the error before *)
(* any collaborator is called and before any cache key is read or written. *)
C7_ValidationFirst ==
    (/\ req # None
     /\ \/ ~req.fields_present \/ ~req.budget_numeric \/ ~req.dates_parse
        \/ req.budget <= 0 \/ req.budget < 1000
        \/ req.start_date > req.end_date \/ req.start_date < 0
        \/ req.end_date - req.start_date > 30) =>
        /\ pc = "done"
        /\ response # None /\ response.status = 400 /\ response.data = None
        /\ calls = {}
        /\ cache_ops = {}
        /\ cache = <<>>
        /\ saved = <<>>

(* a request whose only fault is a budget of 950 has been answered *)
C7_Witness ==
    /\ pc = "done"
    /\ req.budget = 950
    /\ req.end_date - req.start_date <= 30
    /\ response.status = 400

----------------------------------------------------------------------------
(* C8 as stated: the budget-insufficient error occurs exactly when the     *)
(* chosen hotel's total cost exceeds the budget; it comes right after      *)
(* hotel selection, with no day plan, no weather lookup and nothing saved; *)
(* a request whose hotel cost does not exceed the budget goes on to        *)
(* scheduling.                                                             *)
PastHotelSelection ==
    \/ pc \in {"schedule", "reconcile"}
    \/ Succeeded
    \/ Failed(BudgetExceededError)

NothingScheduled ==
    /\ day_wise_itinerary = <<>>
    /\ day_num = 0
    /\ ~Called("weather", TRUE) /\ ~Called("weather", FALSE)
    /\ \A k \in cache_ops : k.kind # "weather"
    /\ saved = <<>>
    /\ response.data = None

C8_InsufficientIffExceeds ==
    /\ Failed(BudgetInsufficientError) =>
          hotel_cost_total > req.budget /\ NothingScheduled
    /\ PastHotelSelection => hotel_cost_total <= req.budget

(* C8 amended: the budget-insufficient error occurs exactly when the       *)
(* chosen hotel's total cost reaches or exceeds the budget (nothing is     *)
(* left for activities and meals); no day plan, no weather lookup, nothing *)
(* saved; a request whose hotel cost is below the budget goes on to        *)
(* scheduling.                                                             *)
C8_InsufficientIffNothingLeft ==
    /\ Failed(BudgetInsufficientError) =>
          hotel_cost_total >= req.budget /\ NothingScheduled
    /\ PastHotelSelection => hotel_cost_total < req.budget

(* the error returned for a hotel total equal to the budget *)
C8_Witness ==
    /\ Failed(BudgetInsufficientError)
    /\ chosen_hotel # None
    /\ hotel_cost_total = req.budget

----------------------------------------------------------------------------
(* C9.  Shared part: whatever collaborators are unavailable, a valid       *)
(* request ends in an itinerary or in one of the two budget errors, hidden *)
(* spots unavailable give an empty list, weather unavailable gives a       *)
(* placeholder snapshot on the entry, a failing predictor gives            *)
(* predicted budget = budget * 1.1.                                        *)
ToleratesUnavailability ==
    /\ (pc = "done" /\ calls # {}) =>
          \/ Succeeded
          \/ Failed(BudgetInsufficientError)
          \/ Failed(BudgetExceededError)
    /\ (Called("predict", FALSE) /\ ~Called("predict", TRUE)) =>
          predicted_budget * 10 = req.budget * 11
    /\ Called("hidden", FALSE) => hidden = <<>>
    /\ \A i \in 1..Len(AttractionEntries) :
          LET e == AttractionEntries[i]
          IN /\ e.weather # None
             /\ ~Called("weather", TRUE) => e.weather.live = FALSE

----------------------------------------------------------------------------
(* C10: deduplicating the output of a deduplication returns that list      *)
(* unchanged, same elements in the same order.                             *)
C10_DedupIdempotent ==
    Len(fn_out) = 2 => fn_out[2] = fn_out[1]

(* a second run over a list the first run shortened to two or more spots *)
C10_Witness ==
    /\ Len(fn_out) = 2
    /\ Len(fn_out[1]) < Len(fn_in)
    /\ Len(fn_out[1]) >= 2

----------------------------------------------------------------------------
(* C11: the budget allocation of a one-day trip is accommodation 0,        *)
(* activities 60 % and meals 40 % of the budget; of a longer trip          *)
(* accommodation 50 %, activities 30 %, meals 20 % and a hotel ceiling of  *)
(* 60 %; the three envelopes are never negative and never sum to more than *)
(* the budget.                                                             *)
C11_BudgetEnvelopes ==
    budget_allocation # None =>
        LET b == req.budget
            a == budget_allocation
        IN /\ duration = 1 =>
                /\ a.accommodation = 0
                /\ a.activities * 10 = b * 6
                /\ a.meals * 10 = b * 4
           /\ duration > 1 =>
                /\ a.accommodation * 10 = b * 5
                /\ a.activities * 10 = b * 3
                /\ a.meals * 10 = b * 2
                /\ a.max_hotel_budget * 10 = b * 6
           /\ a.accommodation >= 0 /\ a.activities >= 0 /\ a.meals >= 0
           /\ a.accommodation + a.activities + a.meals <= b

(* the allocation of a three-day trip on a budget of 1600 *)
C11_Witness ==
    /\ budget_allocation # None
    /\ duration = 3
    /\ req.budget = 1600
    /\ budget_allocation.accommodation = 800

----------------------------------------------------------------------------
(* C12: Day 1 holds exactly one travel leg, the origin-to-destination leg, *)
(* listed first at 08:00 with the routed travel time capped at 12 h as its *)
(* duration, and at most one attraction entry.                             *)
KindCount(day, kinds) == Cardinality({i \in 1..Len(day) : day[i].kind \in kinds})

C12_DayOneLegAndAttraction ==
    Len(day_wise_itinerary) >= 1 =>
        LET day == day_wise_itinerary[1]
        IN /\ KindCount(day, {"travel_out", "return"}) = 1
           /\ day[1].kind = "travel_out"
           /\ day[1].time = 8 * 60
           /\ day[1].duration_hours =
                 IF route.duration_hours > 1200 THEN 1200 ELSE route.duration_hours
           /\ KindCount(day, {"attraction"}) <= 1

(* a Day 1 with its one attraction placed while another candidate was left *)
C12_Witness ==
    /\ Len(day_wise_itinerary) >= 1
    /\ KindCount(day_wise_itinerary[1], {"attraction"}) = 1
    /\ Len(attractions) >= 2

----------------------------------------------------------------------------
(* C14: no restaurant serves more than one meal of an itinerary: the meal  *)
(* entries (Day 1 dinner, middle-day lunch and dinner) name pairwise       *)
(* different restaurants.                                                  *)
C14_RestaurantUsedOnce ==
    \A i, j \in 1..Len(MealEntries) :
        i # j => MealEntries[i].name # MealEntries[j].name

----------------------------------------------------------------------------
(* C15 as stated: the priority score, in halves of a point, is             *)
(* max(0, base + hiddenBonus + ratingBonus - costPenalty): base 2 for a    *)
(* type of interest else 1, hiddenBonus 3 iff the spot came from the       *)
(* hidden-spot query, ratingBonus 1 above 4.5 and 0.5 above 4.0,           *)
(* costPenalty 0.5 above 8000; the tags contribute nothing.                *)
ScoreParts(spot, from_hidden, interests) ==
    (IF \E i \in 1..Len(interests) : interests[i] = spot.type THEN 4 ELSE 2)
    + (IF from_hidden THEN 6 ELSE 0)
    + (IF spot.rating > 45 THEN 2 ELSE IF spot.rating > 40 THEN 1 ELSE 0)
    - (IF spot.estimated_cost > 8000 THEN 1 ELSE 0)

C15_ScoreWithoutTags ==
    fn_out # <<>> =>
        LET parts == ScoreParts(fn_in.spot, fn_in.from_hidden, fn_in.interests)
        IN fn_out[1].priority_score = IF parts < 0 THEN 0 ELSE parts

(* C15 amended: the score also has a tag bonus of 2 when one of the spot's *)
(* tags is hidden, secret, offbeat, local or gem; every spot of the        *)
(* hidden-spot query is given the tag hidden, so it scores 3 + 2 above its *)
(* base.                                                                   *)
C15_ScoreWithTagBonus ==
    fn_out # <<>> =>
        LET parts == ScoreParts(fn_in.spot, fn_in.from_hidden, fn_in.interests)
            tag_bonus ==
                IF \/ fn_in.from_hidden
                   \/ \E t \in fn_in.spot.tags :
                          t \in {"hidden", "secret", "offbeat", "local", "gem"}
                THEN 4 ELSE 0
        IN /\ fn_out[1].priority_score =
                 IF parts + tag_bonus < 0 THEN 0 ELSE parts + tag_bonus
           /\ fn_out[1].is_hidden = fn_in.from_hidden

(* a scored spot of the general query that carries the tag offbeat *)
C15_Witness ==
    /\ fn_out # <<>>
    /\ ~fn_in.from_hidden
    /\ "offbeat" \in fn_in.spot.tags
    /\ fn_in.spot.rating = 45
    /\ fn_in.spot.estimated_cost = 9000

----------------------------------------------------------------------------
(* C16 as stated: the attraction list handed to the scheduler is sorted by *)
(* descending priority score, and two attractions with equal score appear  *)
(* in ascending order of estimated cost.                                   *)
C16_SortedScoreThenCost ==
    \A i, j \in 1..Len(attractions) :
        i < j =>
            /\ attractions[i].priority_score >= attractions[j].priority_score
            /\ attractions[i].priority_score = attractions[j].priority_score
                   => attractions[i].estimated_cost <= attractions[j].estimated_cost

PositionIn(list, name) == CHOOSE k \in 1..Len(list) : list[k].name = name

(* C16 amended: the attraction list is sorted by descending priority score *)
(* and two attractions with equal score keep the order they have in the    *)
(* combined, deduplicated spot list, whatever their costs.                 *)
C16_SortedScoreStable ==
    \A i, j \in 1..Len(attractions) :
        i < j =>
            /\ attractions[i].priority_score >= attractions[j].priority_score
            /\ attractions[i].priority_score = attractions[j].priority_score
                   => PositionIn(all_spots, attractions[i].name)
                          < PositionIn(all_spots, attractions[j].name)

(* two attractions of equal score, the dearer one first *)
C16_Witness ==
    \E i, j \in 1..Len(attractions) :
        /\ i < j
        /\ attractions[i].priority_score = attractions[j].priority_score
        /\ attractions[i].estimated_cost > attractions[j].estimated_cost

----------------------------------------------------------------------------
(* C17: whenever an attraction is placed in a slot, every attraction that  *)
(* precedes it in the priority order was already scheduled or failed the   *)
(* time-legality check for that slot, and a slot is left empty only if no  *)
(* unscheduled attraction passes the check: the priority order is the only *)
(* admission order.  Stated for the first attraction slot of every day     *)
(* after Day 1, whose clock is the day's start hour 08:00.                  *)
ScheduledBefore(day) ==
    {e.name : e \in Range(EntriesOf(SubSeq(day_wise_itinerary, 1, day - 1),
                                    {"attraction"}))}

LegalAtDayStart(a) == schedule_activity_safely(800, a, a.type, 800).ok

C17_PriorityOrderOnly ==
    \A d \in 2..Len(day_wise_itinerary) :
        LET placed == EntriesOf(<<day_wise_itinerary[d]>>, {"attraction"})
            open == {i \in 1..Len(attractions) :
                        /\ attractions[i].name \notin ScheduledBefore(d)
                        /\ LegalAtDayStart(attractions[i])}
        IN IF placed = <<>>
           THEN open = {}
           ELSE \A i \in open :
                   i >= PositionIn(attractions, placed[1].name)

----------------------------------------------------------------------------
(* C18 as stated: on Day 1, if the clock after the travel leg and the      *)
(* optional check-in is at or before 16:30 and some attraction passes the  *)
(* legality check at that hour, exactly one attraction is scheduled, the   *)
(* first such in priority order; if the clock is later than 16:30 none is. *)
ClockAfterArrival(day) ==
    IF \E i \in 1..Len(day) : day[i].kind = "checkin"
    THEN LET c == day[CHOOSE i \in 1..Len(day) : day[i].kind = "checkin"]
         IN (c.time * 100) \div 60 + c.duration_hours
    ELSE (day[1].time * 100) \div 60 + day[1].duration_hours

LegalAt(hour) ==
    {i \in 1..Len(attractions) :
        schedule_activity_safely(hour, attractions[i], attractions[i].type, 800).ok}

DayOneEvening(cutoff) ==
    Len(day_wise_itinerary) >= 1 =>
        LET day == day_wise_itinerary[1]
            clock == ClockAfterArrival(day)
            placed == EntriesOf(<<day>>, {"attraction"})
        IN IF clock <= cutoff /\ LegalAt(clock) # {}
           THEN /\ Len(placed) = 1
                /\ placed[1].name = attractions[CHOOSE i \in LegalAt(clock) :
                                        \A j \in LegalAt(clock) : i <= j].name
           ELSE clock > cutoff => placed = <<>>

C18_EveningUntilHalfPastFour == DayOneEvening(1650)

(* C18 amended: the same with 16:00 as the latest hour at which the Day-1  *)
(* attraction may start.                                                   *)
C18_EveningUntilFour == DayOneEvening(1600)

(* Day 1 with the clock at 16:30 after check-in, a legal attraction, none  *)
(* scheduled                                                               *)
C18_Witness ==
    /\ Len(day_wise_itinerary) >= 1
    /\ ClockAfterArrival(day_wise_itinerary[1]) = 1650
    /\ LegalAt(1650) # {}
    /\ EntriesOf(<<day_wise_itinerary[1]>>, {"attraction"}) = <<>>

----------------------------------------------------------------------------
(* C19 as stated: on every middle day the entries follow the template      *)
(* order at fixed start times: breakfast 07:30, morning attractions 08:30  *)
(* and 11:00, lunch 12:00, afternoon attractions 13:00 and 16:00, dinner   *)
(* 19:00, then the stay marker; a slot is filled at its fixed time or      *)
(* omitted, never moved.                                                   *)
MiddleDays == {d \in 2..Len(day_wise_itinerary) : d < duration}

Slots(day) == SelectSeq(day, LAMBDA e : e.kind # "travel_to")

C19_FixedTemplateTimes ==
    \A d \in MiddleDays :
        LET slots == Slots(day_wise_itinerary[d])
        IN /\ \A i \in 1..Len(slots) :
                 slots[i].time \in
                     CASE slots[i].kind = "attraction" -> {510, 660, 780, 960}
                       [] slots[i].kind = "lunch" -> {720}
                       [] slots[i].kind = "dinner" -> {1140}
                       [] OTHER -> {slots[i].time}
           /\ \A i, j \in 1..Len(slots) :
                 i < j /\ slots[j].kind # "stay" => slots[i].time < slots[j].time

Rep(kind, n) == [i \in 1..n |-> kind]

(* C19 amended: a middle day has no breakfast; its entries are up to two   *)
(* attractions, lunch listed at 12:00, up to two attractions, dinner       *)
(* listed at 19:00 and the stay marker at 21:00, in this order, each       *)
(* attraction preceded by its own travel entry at most.  Attractions have  *)
(* no fixed times: the first entry of the day is listed at 08:00, or at    *)
(* 13:00 when the morning stayed empty and lunch was left out for its      *)
(* cost; the first after lunch at 13:00, the others at the running clock.  *)
C19_RunningClockTemplate ==
    \A d \in MiddleDays :
        LET day == day_wise_itinerary[d]
            slots == Slots(day)
            kinds == [i \in 1..Len(slots) |-> slots[i].kind]
            moving(e) == e.kind \in {"travel_to", "attraction"}
        IN /\ \E a, b \in 0..4, l, n, s \in 0..1 :
                 /\ kinds = Rep("attraction", a) \o Rep("lunch", l)
                              \o Rep("attraction", b) \o Rep("dinner", n)
                              \o Rep("stay", s)
                 /\ IF l = 1 THEN a <= 2 /\ b <= 2 ELSE a + b <= 4
           /\ \A i \in 1..Len(day) :
                 /\ day[i].kind = "lunch" => day[i].time = 12 * 60
                 /\ day[i].kind = "dinner" => day[i].time = 19 * 60
                 /\ day[i].kind = "stay" => day[i].time = 21 * 60
                 /\ day[i].kind = "travel_to" =>
                        /\ i < Len(day)
                        /\ day[i + 1].kind = "attraction"
                        /\ day[i + 1].name = day[i].name
                 /\ moving(day[i]) /\ i = 1 =>
                        \/ day[i].time = 8 * 60
                        \/ day[i].time = 13 * 60 /\ restaurants # <<>>
                 /\ moving(day[i]) /\ i > 1 /\ day[i - 1].kind = "lunch"
                        => day[i].time = 13 * 60

(* a finished middle day with lunch and an attraction off the fixed times *)
C19_Witness ==
    \E d \in MiddleDays :
        LET day == day_wise_itinerary[d]
        IN /\ \E i \in 1..Len(day) : day[i].kind = "lunch"
           /\ \E i \in 1..Len(day) :
                 /\ day[i].kind = "attraction"
                 /\ day[i].time \notin {510, 660, 780, 960}
           /\ day[1].kind = "travel_to"

----------------------------------------------------------------------------
(* C20: on the last day of an itinerary of two days or more there is       *)
(* exactly one return travel leg; it starts at 14:00 whether or not an     *)
(* attraction was scheduled that morning, and its duration is the outbound *)
(* routed travel time, capped at 12 hours.                                 *)
C20_ReturnLegAtTwo ==
    Len(day_wise_itinerary) >= 2 /\ Len(day_wise_itinerary) = duration =>
        LET day == day_wise_itinerary[duration]
            legs == EntriesOf(<<day>>, {"return", "travel_out"})
        IN /\ Len(legs) = 1
           /\ legs[1].kind = "return"
           /\ legs[1].time = 14 * 60
           /\ legs[1].duration_hours =
                 IF route.duration_hours > 1200 THEN 1200 ELSE route.duration_hours
           /\ legs[1].duration_hours = day_wise_itinerary[1][1].duration_hours
           /\ day[Len(day)] = legs[1]

(* a last day with an attraction in the morning, after a capped route *)
C20_Witness ==
    /\ Len(day_wise_itinerary) >= 2
    /\ Len(day_wise_itinerary) = duration
    /\ KindCount(day_wise_itinerary[duration], {"attraction"}) = 1
    /\ KindCount(day_wise_itinerary[duration], {"travel_to"}) = 1
    /\ route.duration_hours > 1200

----------------------------------------------------------------------------
(* C13: when two requests are processed concurrently in any interleaving,  *)
(* sharing only the cache, the scheduled-name set, the running activity    *)
(* and meal costs and the clock of one are never read or modified by the   *)
(* other: each itinerary is the one the request produces alone from the    *)
(* same route, places and hidden spots.  The weather attached to an entry  *)
(* is a cache response and is left out of the comparison.                  *)
WithoutWeather(day) == [i \in 1..Len(day) |-> [day[i] EXCEPT !.weather = None]]

SoloContext(L) ==
    LET days == (L.req.end_date - L.req.start_date) + 1
        left == L.req.budget - L.hotel_cost_total
    IN [start_date |-> L.req.start_date, duration |-> days,
        initial_travel_time |->
            IF L.route.duration_hours > 1200 THEN 1200 ELSE L.route.duration_hours,
        chosen_hotel |-> L.chosen_hotel, attractions |-> L.attractions,
        restaurants |-> L.restaurants,
        activity_budget |-> (left * 6) \div 10,
        meal_budget |-> (left * 4) \div 10,
        attractions_per_day |->
            Max2(2, Min2(3, Len(L.attractions) \div days)),
        daily_start_hour |-> 800]

SoloStart ==
    [entries |-> <<>>, current_hour |-> 800, current_location |-> StartLocation,
     total_activity_cost |-> 0, total_meal_cost |-> 0, hidden_gems_count |-> 0,
     globally_scheduled_activities |-> {}, scheduled_today |-> {},
     cache |-> <<>>, cache_ops |-> {}, calls |-> {}]

(* the loop locals after day d of the request running alone *)
RECURSIVE SoloAfter(_, _)
SoloAfter(ctx, d) ==
    IF d = 0 THEN SoloStart ELSE DayBody(SoloAfter(ctx, d - 1), ctx, d, TRUE)

AsAlone(L, solo) ==
    /\ WithoutWeather(L.day_wise_itinerary[Len(L.day_wise_itinerary)])
           = WithoutWeather(solo.entries)
    /\ L.globally_scheduled_activities = solo.globally_scheduled_activities
    /\ L.total_activity_cost = solo.total_activity_cost
    /\ L.total_meal_cost = solo.total_meal_cost
    /\ L.current_location = solo.current_location
    /\ L.hidden_gems_count = solo.hidden_gems_count

Isolated(L) ==
    /\ L.pc \in {"hotel", "schedule", "reconcile", "done"} /\ L.route # None =>
           /\ L.all_spots = Aggregated(L.pois, L.hidden, L.req.interests)
           /\ Len(L.day_wise_itinerary) <= (L.req.end_date - L.req.start_date) + 1
    /\ L.day_wise_itinerary # <<>> =>
           AsAlone(L, SoloAfter(SoloContext(L), Len(L.day_wise_itinerary)))

C13_RequestsIsolated ==
    /\ Isolated(RequestLocals)
    /\ parked # None => Isolated(parked)

(* both requests have finished with an itinerary, one of them having       *)
(* scheduled an attraction the other scheduled too                          *)
C13_Witness ==
    /\ parked # None
    /\ pc = "done" /\ parked.pc = "done"
    /\ req # parked.req
    /\ globally_scheduled_activities \cap parked.globally_scheduled_activities # {}
    /\ day_wise_itinerary # <<>> /\ parked.day_wise_itinerary # <<>>

----------------------------------------------------------------------------
(* C21 as stated: the last day of every multi-day itinerary with a chosen  *)
(* hotel contains a hotel check-out entry at 08:30 placed before the final *)
(* attraction, and its final entry is an arrival marker at 14:00 +         *)
(* travelHours with zero duration and category arrival.                    *)
LastDayDone == Len(day_wise_itinerary) >= 2 /\ Len(day_wise_itinerary) = duration

C21_CheckOutAndArrival ==
    LastDayDone /\ chosen_hotel # None =>
        LET day == day_wise_itinerary[duration]
            final == day[Len(day)]
        IN /\ \E i \in 1..Len(day) :
                 /\ day[i].type = "hotel"
                 /\ day[i].time = 8 * 60 + 30
                 /\ \A j \in 1..Len(day) : day[j].kind = "attraction" => i < j
           /\ final.type = "arrival"
           /\ final.duration_hours = 0
           /\ final.time = format_time_from_float(1400 + day_wise_itinerary[1][1].duration_hours)

(* C21 amended: the last day has neither a check-out entry nor an arrival  *)
(* marker: it is at most one attraction, preceded by its travel entry at   *)
(* most, and then the return travel leg, which is the final entry and      *)
(* carries the travel duration.                                            *)
C21_LastDayEndsWithReturnLeg ==
    LastDayDone /\ chosen_hotel # None =>
        LET day == day_wise_itinerary[duration]
            kinds == [i \in 1..Len(day) |-> day[i].kind]
            final == day[Len(day)]
        IN /\ kinds \in { <<"return">>, <<"attraction", "return">>,
                          <<"travel_to", "attraction", "return">> }
           /\ \A i \in 1..Len(day) : day[i].type \notin {"hotel", "arrival"}
           /\ final.type = "travel"
           /\ final.duration_hours = day_wise_itinerary[1][1].duration_hours
           /\ final.duration_hours > 0

(* a finished trip with a hotel and an attraction on its last day *)
C21_Witness ==
    /\ LastDayDone
    /\ chosen_hotel # None
    /\ KindCount(day_wise_itinerary[duration], {"attraction"}) = 1

----------------------------------------------------------------------------
(* C22 as stated: merging the general and hidden result lists keeps, for   *)
(* every name, the first occurrence: a name returned by both queries is    *)
(* the general-query record, not flagged hidden, without hidden bonus, and *)
(* not annotated isHiddenGem when scheduled.                               *)
NamesOf(list) == {list[i].name : i \in 1..Len(list)}

InBothQueries == NamesOf(pois) \cap NamesOf(hidden)

Named(list, name) == list[CHOOSE i \in 1..Len(list) : list[i].name = name]

Aggregation == pc \in {"hotel", "schedule", "reconcile", "done"} /\ route # None

C22_FirstOccurrenceKept ==
    Aggregation =>
        \A name \in InBothQueries \cap NamesOf(all_spots) :
            /\ ~Named(all_spots, name).is_hidden
            /\ Named(all_spots, name).estimated_cost = Named(pois, name).estimated_cost
            /\ \A i \in 1..Len(AttractionEntries) :
                   AttractionEntries[i].name = name => ~AttractionEntries[i].is_hidden_gem

(* C22 amended: for a name returned by both queries the merged candidate   *)
(* is the hidden-query record, at the place of the general-query one: it   *)
(* is flagged and tagged hidden, has the hidden and tag bonuses in its     *)
(* score, and is annotated as a hidden gem when scheduled.                 *)
C22_LastOccurrenceKept ==
    Aggregation =>
        \A name \in InBothQueries \cap NamesOf(all_spots) :
            LET spot == Named(all_spots, name)
                from_hidden == Named(hidden, name)
            IN /\ spot.is_hidden
               /\ "hidden" \in spot.tags
               /\ spot.estimated_cost = from_hidden.estimated_cost
               /\ spot.rating = from_hidden.rating
               /\ spot.priority_score >= 2 + 6 + 4 - 1
               /\ name = pois[1].name => all_spots[1].name = name
               /\ \A i \in 1..Len(AttractionEntries) :
                      AttractionEntries[i].name = name =>
                          /\ AttractionEntries[i].is_hidden_gem
                          /\ AttractionEntries[i].cost = from_hidden.estimated_cost

(* a finished itinerary with an attraction both queries returned, the two  *)
(* records differing in cost                                               *)
C22_Witness ==
    /\ pc = "done"
    /\ \E i \in 1..Len(AttractionEntries) :
          /\ AttractionEntries[i].name \in InBothQueries
          /\ Named(pois, AttractionEntries[i].name).estimated_cost
                 # Named(hidden, AttractionEntries[i].name).estimated_cost

----------------------------------------------------------------------------
(* C23: every scheduled attraction entry whose estimated internal travel   *)
(* time exceeds 0.2 h is immediately preceded in its day's list by a       *)
(* travel entry to that attraction; the estimate is never below 0.25 h, so *)
(* every attraction entry on every day is preceded by its own travel entry. *)
C23_TravelEntryBeforeAttraction ==
    \A d \in 1..Len(day_wise_itinerary) :
        LET day == day_wise_itinerary[d]
        IN \A i \in 1..Len(day) :
              day[i].kind = "attraction" =>
                  /\ i > 1
                  /\ day[i - 1].kind = "travel_to"
                  /\ day[i - 1].type = "travel"
                  /\ day[i - 1].name = day[i].name
                  /\ day[i - 1].duration_hours >= 25
                  /\ day[i - 1].duration_hours > 20

(* an attraction so near that only the minimum makes its travel an entry *)
C23_Witness ==
    \E d \in 1..Len(day_wise_itinerary) :
        \E i \in 2..Len(day_wise_itinerary[d]) :
            /\ day_wise_itinerary[d][i].kind = "attraction"
            /\ day_wise_itinerary[d][i - 1].kind = "travel_to"
            /\ day_wise_itinerary[d][i - 1].duration_hours = 25

----------------------------------------------------------------------------
(* C24: the freshness window given to a cached value depends only on the   *)
(* collaborator that produced it: 7200 s for a route, 3600 s for places    *)
(* and hidden spots, 1800 s for weather, whatever the origin, destination  *)
(* and interest tags the key is built from.                                *)
C24_WindowByCollaborator ==
    \A k \in DOMAIN cache :
        cache[k].ttl = CASE k.kind = "route" -> 7200
                         [] k.kind \in {"places", "hidden"} -> 3600
                         [] k.kind = "weather" -> 1800

----------------------------------------------------------------------------
(* C28: once a value is stored for a key, every later call for the key     *)
(* within the freshness window returns the stored value without invoking   *)
(* the collaborator, whatever the value is, an empty place list included.  *)
Returned == fn_out' # <<>>

C28_StoredValueServed ==
    [][Returned /\ fn_in'.key \in DOMAIN cache =>
           /\ ~fn_out'[1].fetched
           /\ fn_out'[1].value = cache[fn_in'.key].value]_vars

----------------------------------------------------------------------------
(* C29: a degraded value standing in for an unavailable collaborator is    *)
(* never written to the cache: after a failed collaborator call the cache  *)
(* is unchanged for that key.                                              *)
C29_DegradedValueNotCached ==
    [][Returned /\ fn_out'[1].fetched /\ (fn_in'.raised \/ ~fn_in'.up) =>
           /\ fn_in'.key \in DOMAIN cache' <=> fn_in'.key \in DOMAIN cache
           /\ fn_in'.key \in DOMAIN cache =>
                  cache'[fn_in'.key] = cache[fn_in'.key]]_vars

----------------------------------------------------------------------------
(* C25: within each day the entries are listed in non-decreasing start     *)
(* time and do not overlap: every entry starts no earlier than the listed  *)
(* start plus the duration of the entry before it, so the clock of the     *)
(* next slot includes the travel time that preceded an attraction.  Listed *)
(* times are whole minutes, so less than a minute of overlap is let pass.  *)
C25_NoOverlapWithinDay ==
    \A d \in 1..Len(day_wise_itinerary) :
        LET day == day_wise_itinerary[d]
        IN \A i \in 1..(Len(day) - 1) :
              /\ day[i].time <= day[i + 1].time
              /\ (day[i + 1].time + 1) * 100 > day[i].time * 100 + day[i].duration_hours * 60

----------------------------------------------------------------------------
(* C26: at every point of schedule construction the accumulated activity   *)
(* cost is at most the activity budget, 60 % of the budget left after the  *)
(* hotel: an attraction is scheduled on Day 1, on a middle day or on the   *)
(* last day only if its cost fits in what is left of that budget.          *)
C26_ActivityCostWithinBudget ==
    day_wise_itinerary # <<>> =>
        /\ total_activity_cost = CostOf(AttractionEntries)
        /\ total_activity_cost * 10 <= (req.budget - hotel_cost_total) * 6

----------------------------------------------------------------------------
----------------------------------------------------------------------------
(* C30: deduplication never discards a candidate because of a spot of a    *)
(* different category: a hotel or restaurant near an earlier-listed        *)
(* attraction, or named like it, stays in its candidate list.  Stated for  *)
(* a hotel or restaurant that is the only returned spot of its category,   *)
(* which no spot of its own category can have displaced.                   *)
C30_OtherCategoryNeverDiscards ==
    Aggregation =>
        LET returned == pois \o hidden
        IN \A i \in 1..Len(returned) :
              /\ returned[i].type \in {"hotel", "restaurant"}
              /\ \A j \in 1..Len(returned) :
                     j # i => returned[j].type # returned[i].type
              => returned[i].name \in
                     NamesOf(IF returned[i].type = "hotel" THEN hotels ELSE restaurants)

=============================================================================
